---- MODULE Spec2Model ----
(***************************************************************************)
(* SceneManager (src/SceneManager.cpp): the tagged texture registry, the   *)
(* material registry and the shader-uniform writes that precede a draw.    *)
(*                                                                         *)
(* Every public method is one action.  The last call and what it returned  *)
(* are kept in the state (call, returned, retBool, retInt) so that a       *)
(* property can speak about "the call that has just been made".            *)
(*                                                                         *)
(* Floating point material values are written in tenths (0.2f is 2,        *)
(* 22.0 is 220); a glm::vec3 is a triple.                                  *)
(***************************************************************************)
EXTENDS Integers, Sequences, FiniteSets

VARIABLES
    m_textureIDs,       \* TEXTURE_INFO m_textureIDs[MaxTextures]: slot -> [ID, tag]
    m_loadedTextures,   \* int m_loadedTextures
    pastTheEnd,         \* the memory right after m_textureIDs (touched only out of bounds)
    glTextures,         \* GL: names of the texture objects that exist
    glBoundTexture2D,   \* GL: the name bound to GL_TEXTURE_2D (0: none)
    glTextureUnits,     \* GL: the texture bound to each texture unit (0: none)
    liveImages,         \* stb_image: decoded buffers not yet given to stbi_image_free
    destroyCalls,       \* how many times DestroyGLTextures has run
    m_objectMaterials,  \* std::vector<OBJECT_MATERIAL>
    m_pShaderManager,   \* "NULL" or "shader"
    uniforms,           \* the shader program's uniform values
    material,           \* the OBJECT_MATERIAL the last FindMaterial caller passed by reference
    materialBefore,     \* that object as it was when FindMaterial was entered
    call,               \* the last call: [op, filename, tag]
    returned,           \* TRUE when the last call returned to its caller
    retBool,            \* its bool result
    retInt,             \* its int result
    undefined,          \* TRUE once the program has executed undefined behaviour
    writes,             \* the names of the uniforms the last call wrote
    pc,                 \* PrepareScene / RenderScene: how many calls of Program are done
    sinceDraw,          \* the calls made since the last mesh draw, in order
    written,            \* the uniforms written since the last mesh draw
    drawn,              \* the last mesh draw: shape, preceding calls, uniforms it reads
    meshLoads           \* ShapeMeshes: how often each Load<Shape>Mesh has run

textureVars == <<m_textureIDs, m_loadedTextures, pastTheEnd, glTextures,
                 glBoundTexture2D, glTextureUnits, liveImages, destroyCalls>>
materialVars == <<m_objectMaterials, m_pShaderManager, uniforms, material, materialBefore>>
callVars == <<call, returned, retBool, retInt, undefined, writes>>
renderVars == <<pc, sinceDraw, written, drawn, meshLoads>>
vars == <<textureVars, materialVars, callVars, renderVars>>

(***************************************************************************)
(* Bounds of the model and constants of the program.                       *)
(***************************************************************************)
\* the texture slots of the scene ("There are up to 16 slots")
MaxTextures == 16
\* loads that are not the plain next load of LoadOrder: those that reuse the
\* tag of slot 0 and those of an image with an unsupported channel count
MaxIrregularLoads == 2
\* calls of DestroyGLTextures
MaxDestroyCalls == 1

NULL == "NULL"

\* the tags LoadSceneTextures registers, in call order
SceneTextureTags ==
    << "floor", "kickstand", "kickbag", "dumbell_steel", "dumbell_orange",
       "dumbell_pink", "dumbell_grey", "wall", "window", "window_wall", "tv",
       "dumbell_steel_white", "door", "double_doors", "weight_mats", "wall_mat" >>

\* the two tags RenderScene passes to SetShaderTexture that no load registers
UnloadedTextureTags == << "kettlebell_blue", "whiteWall" >>

\* the order in which the model's caller hands tags to CreateGLTexture:
\* the scene's sixteen, then one more
LoadOrder == SceneTextureTags \o << UnloadedTextureTags[1] >>

\* the tags the model's caller looks up
LookupTags == { SceneTextureTags[1], SceneTextureTags[8], UnloadedTextureTags[2] }

(***************************************************************************)
(* The image decoder (stb_image).  A file name stands for what the decoder *)
(* makes of the file: no image at all, or an image with 1..4 channels.     *)
(***************************************************************************)
Files == { "missing.jpg", "grey.png", "greyalpha.png", "rgb.jpg", "rgba.png" }

\* stbi_load: the returned pointer (NULL when the file cannot be decoded) and
\* the channel count it stores through &colorChannels (left 0 on failure)
stbi_load(filename) ==
    CASE filename = "grey.png"      -> [data |-> "pixels", colorChannels |-> 1]
      [] filename = "greyalpha.png" -> [data |-> "pixels", colorChannels |-> 2]
      [] filename = "rgb.jpg"       -> [data |-> "pixels", colorChannels |-> 3]
      [] filename = "rgba.png"      -> [data |-> "pixels", colorChannels |-> 4]
      [] OTHER                      -> [data |-> NULL, colorChannels |-> 0]

\* glGenTextures(1, &id): a name no texture object has yet
glGenTextures(names) == CHOOSE n \in 1..(Cardinality(names) + 1) :
                            /\ n \notin names
                            /\ \A k \in 1..(n - 1) : k \in names

NoCall == [op |-> "", filename |-> "", tag |-> ""]
EmptySlot == [ID |-> 0, tag |-> ""]


(***************************************************************************)
(* The texture registry.                                                   *)
(***************************************************************************)
\* m_textureIDs[index] as the machine reads it: past the array's last element
\* it is whatever lies behind the array
TextureEntry(index) ==
    IF index < MaxTextures THEN m_textureIDs[index] ELSE pastTheEnd

\* mutant: the test of the decoder's result is missing
ImageLoaded_Always(image) == TRUE

\* `if (image)`
ImageLoaded(image) == image.data # NULL

\* mutant: every channel count is uploaded and registered
ChannelsSupported_Any(colorChannels) == colorChannels \in 1..4

\* `colorChannels == 3` / `colorChannels == 4`: the formats that are uploaded
ChannelsSupported(colorChannels) == colorChannels \in {3, 4}

\* what a write to m_textureIDs[MaxTextures] can do: land in the memory behind
\* the array and let the call return, or bring the process down
OutOfBoundsOutcomes == { "adjacent", "crash" }

\* bool CreateGLTexture(const char* filename, std::string tag)
CreateGLTexture(filename, tag) ==
    LET image == stbi_load(filename)
        decoded == IF image.data # NULL THEN 1 ELSE 0
        textureID == glGenTextures(glTextures)
    IN  /\ call' = [op |-> "CreateGLTexture", filename |-> filename, tag |-> tag]
        /\ retInt' = 0
        /\ writes' = {}
        /\ UNCHANGED <<destroyCalls, glTextureUnits, materialVars>>
        /\ IF ~ImageLoaded(image)
           THEN \* "Could not load image": return false
                /\ returned' = TRUE
                /\ retBool' = FALSE
                /\ UNCHANGED <<m_textureIDs, m_loadedTextures, pastTheEnd,
                               glTextures, glBoundTexture2D, liveImages, undefined>>
           ELSE IF ~ChannelsSupported(image.colorChannels)
           THEN \* glGenTextures, glBindTexture, then "Not implemented to handle
                \* image with N channels": return false
                /\ glTextures' = glTextures \cup {textureID}
                /\ glBoundTexture2D' = textureID
                /\ liveImages' = liveImages + decoded
                /\ returned' = TRUE
                /\ retBool' = FALSE
                /\ UNCHANGED <<m_textureIDs, m_loadedTextures, pastTheEnd, undefined>>
           ELSE IF m_loadedTextures < MaxTextures
           THEN \* upload, mipmaps, stbi_image_free, unbind, register, return true
                /\ glTextures' = glTextures \cup {textureID}
                /\ glBoundTexture2D' = 0
                /\ liveImages' = liveImages + decoded - 1
                /\ m_textureIDs' = [m_textureIDs EXCEPT
                                       ![m_loadedTextures] = [ID |-> textureID, tag |-> tag]]
                /\ m_loadedTextures' = m_loadedTextures + 1
                /\ returned' = TRUE
                /\ retBool' = TRUE
                /\ UNCHANGED <<pastTheEnd, undefined>>
           ELSE \* the same path with m_loadedTextures = MaxTextures: the two
                \* stores go past the end of m_textureIDs (undefined behaviour)
                /\ glTextures' = glTextures \cup {textureID}
                /\ glBoundTexture2D' = 0
                /\ liveImages' = liveImages + decoded - 1
                /\ undefined' = TRUE
                /\ UNCHANGED m_textureIDs
                /\ \E outcome \in OutOfBoundsOutcomes :
                      IF outcome = "adjacent"
                      THEN /\ pastTheEnd' = [ID |-> textureID, tag |-> tag]
                           /\ m_loadedTextures' = m_loadedTextures + 1
                           /\ returned' = TRUE
                           /\ retBool' = TRUE
                      ELSE /\ returned' = FALSE
                           /\ retBool' = FALSE
                           /\ UNCHANGED <<pastTheEnd, m_loadedTextures>>

\* the loop of DestroyGLTextures from index i on: glGenTextures(1, &m_textureIDs[i].ID)
RECURSIVE DestroyLoop(_, _, _)
DestroyLoop(i, ids, names) ==
    IF i < m_loadedTextures
    THEN LET id == glGenTextures(names)
         IN  DestroyLoop(i + 1, [ids EXCEPT ![i].ID = id], names \cup {id})
    ELSE [ids |-> ids, names |-> names]

\* void DestroyGLTextures()
DestroyGLTextures ==
    LET after == DestroyLoop(0, m_textureIDs, glTextures)
    IN  /\ call' = [op |-> "DestroyGLTextures", filename |-> "", tag |-> ""]
        /\ writes' = {}
        /\ m_textureIDs' = after.ids
        /\ glTextures' = after.names
        /\ destroyCalls' = destroyCalls + 1
        /\ returned' = TRUE
        /\ retBool' = FALSE
        /\ retInt' = 0
        /\ UNCHANGED <<m_loadedTextures, pastTheEnd, glBoundTexture2D, glTextureUnits,
                       liveImages, materialVars, undefined>>

\* the while loop of FindTextureID from `index` on
RECURSIVE FindTextureIDLoop(_, _)
FindTextureIDLoop(tag, index) ==
    IF index < m_loadedTextures
    THEN IF TextureEntry(index).tag = tag
         THEN TextureEntry(index).ID
         ELSE FindTextureIDLoop(tag, index + 1)
    ELSE -1

\* mutant: the loop does not stop at the first match, the last match wins
FindTextureID_LastMatch(tag) ==
    LET matches == { i \in 0..(m_loadedTextures - 1) : TextureEntry(i).tag = tag }
    IN  IF matches = {} THEN -1
        ELSE TextureEntry(CHOOSE i \in matches : \A j \in matches : j <= i).ID

\* int FindTextureID(std::string tag)
FindTextureID(tag) == FindTextureIDLoop(tag, 0)

\* the while loop of FindTextureSlot from `index` on
RECURSIVE FindTextureSlotLoop(_, _)
FindTextureSlotLoop(tag, index) ==
    IF index < m_loadedTextures
    THEN IF TextureEntry(index).tag = tag
         THEN index
         ELSE FindTextureSlotLoop(tag, index + 1)
    ELSE -1

\* mutant: the loop does not stop at the first match, the last match wins
FindTextureSlot_LastMatch(tag) ==
    LET matches == { i \in 0..(m_loadedTextures - 1) : TextureEntry(i).tag = tag }
    IN  IF matches = {} THEN -1
        ELSE CHOOSE i \in matches : \A j \in matches : j <= i

\* mutant: textureSlot starts at 0 instead of -1
FindTextureSlot_ZeroInit(tag) ==
    IF FindTextureSlotLoop(tag, 0) = -1 THEN 0 ELSE FindTextureSlotLoop(tag, 0)

\* int FindTextureSlot(std::string tag)
FindTextureSlot(tag) == FindTextureSlotLoop(tag, 0)

(***************************************************************************)
(* Matrices and SetTransformations.  A mat4 is a tuple of four rows.       *)
(* Angles are multiples of 90 degrees, for which sine and cosine are       *)
(* integers; scales and positions are integers.                            *)
(***************************************************************************)
ZeroMatrix == << <<0, 0, 0, 0>>, <<0, 0, 0, 0>>, <<0, 0, 0, 0>>, <<0, 0, 0, 0>> >>

\* row i of a times column j of b
RowTimesColumn(a, b, i, j) ==
    a[i][1] * b[1][j] + a[i][2] * b[2][j] + a[i][3] * b[3][j] + a[i][4] * b[4][j]

\* row i of the product of a and b
ProductRow(a, b, i) ==
    << RowTimesColumn(a, b, i, 1), RowTimesColumn(a, b, i, 2),
       RowTimesColumn(a, b, i, 3), RowTimesColumn(a, b, i, 4) >>

\* operator* of glm::mat4
MatMul(a, b) ==
    << ProductRow(a, b, 1), ProductRow(a, b, 2), ProductRow(a, b, 3), ProductRow(a, b, 4) >>

\* glm::radians, in quarter turns (units of pi/2)
glm_radians(degrees) == degrees \div 90

Cos(quarters) == << 1, 0, -1, 0 >>[(quarters % 4) + 1]
Sin(quarters) == << 0, 1, 0, -1 >>[(quarters % 4) + 1]

\* glm::scale(v)
glm_scale(v) ==
    << <<v[1], 0, 0, 0>>, <<0, v[2], 0, 0>>, <<0, 0, v[3], 0>>, <<0, 0, 0, 1>> >>

\* glm::translate(v)
glm_translate(v) ==
    << <<1, 0, 0, v[1]>>, <<0, 1, 0, v[2]>>, <<0, 0, 1, v[3]>>, <<0, 0, 0, 1>> >>

\* glm::rotate(angle, axis) for the three unit axes
glm_rotate(angle, axis) ==
    LET c == Cos(angle)
        s == Sin(angle)
    IN  CASE axis = <<1, 0, 0>> ->
               << <<1, 0, 0, 0>>, <<0, c, -s, 0>>, <<0, s, c, 0>>, <<0, 0, 0, 1>> >>
          [] axis = <<0, 1, 0>> ->
               << <<c, 0, s, 0>>, <<0, 1, 0, 0>>, <<-s, 0, c, 0>>, <<0, 0, 0, 1>> >>
          [] axis = <<0, 0, 1>> ->
               << <<c, -s, 0, 0>>, <<s, c, 0, 0>>, <<0, 0, 1, 0>>, <<0, 0, 0, 1>> >>

\* mutant: the factors are multiplied in the opposite order
ComposeModelView_Reversed(translation, rotationX, rotationY, rotationZ, scale) ==
    MatMul(scale, MatMul(rotationZ, MatMul(rotationY, MatMul(rotationX, translation))))

\* modelView = translation * rotationX * rotationY * rotationZ * scale
ComposeModelView(translation, rotationX, rotationY, rotationZ, scale) ==
    MatMul(MatMul(MatMul(MatMul(translation, rotationX), rotationY), rotationZ), scale)

\* void SetTransformations(scaleXYZ, XrotationDegrees, YrotationDegrees,
\*                         ZrotationDegrees, positionXYZ)
SetTransformations(scaleXYZ, XrotationDegrees, YrotationDegrees, ZrotationDegrees, positionXYZ) ==
    LET scale == glm_scale(scaleXYZ)
        rotationX == glm_rotate(glm_radians(XrotationDegrees), <<1, 0, 0>>)
        rotationY == glm_rotate(glm_radians(YrotationDegrees), <<0, 1, 0>>)
        rotationZ == glm_rotate(glm_radians(ZrotationDegrees), <<0, 0, 1>>)
        translation == glm_translate(positionXYZ)
        modelView == ComposeModelView(translation, rotationX, rotationY, rotationZ, scale)
    IN  /\ call' = [ op |-> "SetTransformations", filename |-> "", tag |-> "",
                     scaleXYZ |-> scaleXYZ, XrotationDegrees |-> XrotationDegrees,
                     YrotationDegrees |-> YrotationDegrees,
                     ZrotationDegrees |-> ZrotationDegrees,
                     positionXYZ |-> positionXYZ ]
        /\ IF NULL # m_pShaderManager
           THEN /\ uniforms' = [uniforms EXCEPT !["model"] = modelView]
                /\ writes' = {"model"}
           ELSE /\ UNCHANGED uniforms
                /\ writes' = {}
        /\ returned' = TRUE
        /\ retBool' = FALSE
        /\ retInt' = 0
        /\ UNCHANGED <<textureVars, m_objectMaterials, m_pShaderManager, material,
                       materialBefore, undefined>>

\* the names of the five material uniforms
MaterialUniforms ==
    { "material.ambientColor", "material.ambientStrength", "material.diffuseColor",
      "material.specularColor", "material.shininess" }

(***************************************************************************)
(* The material registry and SetShaderMaterial.                            *)
(***************************************************************************)
Material(tag, ambientColor, ambientStrength, diffuseColor, specularColor, shininess) ==
    [ tag |-> tag, ambientColor |-> ambientColor, ambientStrength |-> ambientStrength,
      diffuseColor |-> diffuseColor, specularColor |-> specularColor,
      shininess |-> shininess ]

\* the entries DefineObjectMaterials pushes, in order (values in tenths)
SceneMaterials ==
    << Material("redKick",              <<2, 2, 1>>, 4, <<3, 3, 2>>, <<6, 5, 4>>, 220),
       Material("KickStand",            <<2, 2, 1>>, 4, <<3, 3, 2>>, <<6, 5, 4>>, 220),
       Material("darkMetallicDumbbell", <<1, 1, 1>>, 2, <<1, 1, 1>>, <<5, 5, 5>>, 320),
       Material("blackTVScreen",        <<0, 0, 0>>, 0, <<0, 0, 0>>, <<0, 0, 0>>, 0),
       Material("glassMirror",          <<0, 0, 0>>, 0, <<0, 0, 0>>, <<10, 10, 10>>, 1000),
       Material("whiteWall",            <<8, 8, 8>>, 2, <<8, 8, 8>>, <<0, 0, 0>>, 0),
       Material("whiteHardwoodFloor",   <<4, 4, 4>>, 3, <<8, 8, 8>>, <<3, 3, 3>>, 250),
       Material("rubberDumbbell",       <<1, 1, 1>>, 2, <<2, 2, 2>>, <<0, 0, 0>>, 0),
       Material("floorMat",             <<1, 1, 1>>, 2, <<3, 3, 3>>, <<0, 0, 0>>, 0),
       Material("whiteDoor",            <<2, 2, 2>>, 3, <<8, 8, 8>>, <<2, 2, 2>>, 100),
       Material("Window",               <<2, 2, 2>>, 1, <<8, 8, 8>>, <<0, 0, 0>>, 0) >>

\* the material tags RenderScene passes to SetShaderMaterial
RenderMaterialTags ==
    { "KickStand", "Window", "blackTVScreen", "darkMetallicDumbbell", "floorMat",
      "glassMirror", "redKick", "rubberDumbell", "whiteDoor", "whiteHardwoodFloor",
      "whiteWall" }

\* the tags the model's caller resolves: those of RenderScene and those defined
MaterialTags == RenderMaterialTags \cup { SceneMaterials[i].tag : i \in 1..Len(SceneMaterials) }

\* an OBJECT_MATERIAL whose floats were never written: what a local
\* `OBJECT_MATERIAL material;` can hold is not determined by the program
GarbageMaterial == Material("", <<-1, -1, -1>>, -1, <<-1, -1, -1>>, <<-1, -1, -1>>, -1)
ZeroMaterial == Material("", <<0, 0, 0>>, 0, <<0, 0, 0>>, <<0, 0, 0>>, 0)

\* the values an uninitialised local OBJECT_MATERIAL can have: arbitrary bits,
\* zeroes, or what the previous call left on the stack
IndeterminateMaterials == { GarbageMaterial, ZeroMaterial, [material EXCEPT !.tag = ""] }

\* void DefineObjectMaterials(): eleven push_back calls
DefineObjectMaterials ==
    /\ m_objectMaterials' = m_objectMaterials \o SceneMaterials
    /\ call' = [op |-> "DefineObjectMaterials", filename |-> "", tag |-> ""]
    /\ writes' = {}
    /\ returned' = TRUE
    /\ retBool' = FALSE
    /\ retInt' = 0
    /\ UNCHANGED <<textureVars, m_pShaderManager, uniforms, material, materialBefore,
                   undefined>>

\* mutant: the loop does not stop at the first match, the last match wins
FindMaterialLoop_LastMatch(tag, index, mat) ==
    LET matches == { i \in (index + 1)..Len(m_objectMaterials) :
                       m_objectMaterials[i].tag = tag }
        last == CHOOSE i \in matches : \A j \in matches : j <= i
    IN  IF matches = {}
        THEN [ bFound |-> FALSE, material |-> mat ]
        ELSE [ bFound |-> TRUE,
               material |->
                 [ mat EXCEPT
                     !.ambientColor = m_objectMaterials[last].ambientColor,
                     !.ambientStrength = m_objectMaterials[last].ambientStrength,
                     !.diffuseColor = m_objectMaterials[last].diffuseColor,
                     !.specularColor = m_objectMaterials[last].specularColor,
                     !.shininess = m_objectMaterials[last].shininess ] ]

\* the while loop of FindMaterial from `index` on: [bFound, material]
RECURSIVE FindMaterialLoop(_, _, _)
FindMaterialLoop(tag, index, mat) ==
    IF index < Len(m_objectMaterials)
    THEN IF m_objectMaterials[index + 1].tag = tag
         THEN [ bFound |-> TRUE,
                material |->
                  [ mat EXCEPT
                      !.ambientColor = m_objectMaterials[index + 1].ambientColor,
                      !.ambientStrength = m_objectMaterials[index + 1].ambientStrength,
                      !.diffuseColor = m_objectMaterials[index + 1].diffuseColor,
                      !.specularColor = m_objectMaterials[index + 1].specularColor,
                      !.shininess = m_objectMaterials[index + 1].shininess ] ]
         ELSE FindMaterialLoop(tag, index + 1, mat)
    ELSE [ bFound |-> FALSE, material |-> mat ]

\* mutant: the test for an empty registry is missing
FindMaterial_NoEmptyTest(tag, mat) ==
    [ ret |-> TRUE, material |-> FindMaterialLoop(tag, 0, mat).material ]

\* bool FindMaterial(std::string tag, OBJECT_MATERIAL& material):
\* [ret: the value returned, material: the referenced object afterwards]
FindMaterial(tag, mat) ==
    IF Len(m_objectMaterials) = 0
    THEN [ ret |-> FALSE, material |-> mat ]
    ELSE [ ret |-> TRUE, material |-> FindMaterialLoop(tag, 0, mat).material ]

\* mutant: the shininess uniform is not written
WriteMaterialUniforms_NoShininess(u, mat) ==
    [ u EXCEPT !["material.ambientColor"] = mat.ambientColor,
               !["material.ambientStrength"] = mat.ambientStrength,
               !["material.diffuseColor"] = mat.diffuseColor,
               !["material.specularColor"] = mat.specularColor ]

\* the five setVec3Value / setFloatValue calls of SetShaderMaterial
WriteMaterialUniforms(u, mat) ==
    [ u EXCEPT !["material.ambientColor"] = mat.ambientColor,
               !["material.ambientStrength"] = mat.ambientStrength,
               !["material.diffuseColor"] = mat.diffuseColor,
               !["material.specularColor"] = mat.specularColor,
               !["material.shininess"] = mat.shininess ]

\* what a call through a NULL m_pShaderManager can do: bring the process down,
\* or return without having written a uniform
NullDerefOutcomes == { "crash", "ignored" }

\* mutant: the entry that was found is moved to the front of the list
SetShaderMaterial_MovesToFront(materialTag) ==
    /\ call' = [op |-> "SetShaderMaterial", filename |-> "", tag |-> materialTag]
    /\ retBool' = FALSE
    /\ retInt' = 0
    /\ UNCHANGED <<textureVars, m_pShaderManager>>
    /\ IF Len(m_objectMaterials) > 0
       THEN \E local \in IndeterminateMaterials :
              LET found == FindMaterial(materialTag, local)
              IN  /\ material' = found.material
                  /\ materialBefore' = local
                  /\ m_objectMaterials' =
                       << found.material >> \o
                       SelectSeq(m_objectMaterials, LAMBDA m : m # found.material)
                  /\ IF m_pShaderManager # NULL
                     THEN /\ uniforms' = WriteMaterialUniforms(uniforms, found.material)
                          /\ writes' = MaterialUniforms
                          /\ returned' = TRUE
                          /\ UNCHANGED undefined
                     ELSE /\ undefined' = TRUE
                          /\ writes' = {}
                          /\ UNCHANGED uniforms
                          /\ \E outcome \in NullDerefOutcomes :
                                returned' = (outcome = "ignored")
       ELSE /\ returned' = TRUE
            /\ writes' = {}
            /\ UNCHANGED <<uniforms, m_objectMaterials, material, materialBefore, undefined>>

\* void SetShaderMaterial(std::string materialTag)
SetShaderMaterial(materialTag) ==
    /\ call' = [op |-> "SetShaderMaterial", filename |-> "", tag |-> materialTag]
    /\ retBool' = FALSE
    /\ retInt' = 0
    /\ UNCHANGED <<textureVars, m_objectMaterials, m_pShaderManager>>
    /\ IF Len(m_objectMaterials) > 0
       THEN \E local \in IndeterminateMaterials :
              LET found == FindMaterial(materialTag, local)
              IN  /\ material' = found.material
                  /\ materialBefore' = local
                  /\ IF found.ret = TRUE
                     THEN IF m_pShaderManager # NULL
                          THEN /\ uniforms' = WriteMaterialUniforms(uniforms, found.material)
                               /\ writes' = MaterialUniforms
                               /\ returned' = TRUE
                               /\ UNCHANGED undefined
                          ELSE /\ undefined' = TRUE
                               /\ writes' = {}
                               /\ UNCHANGED uniforms
                               /\ \E outcome \in NullDerefOutcomes :
                                     returned' = (outcome = "ignored")
                     ELSE /\ returned' = TRUE
                          /\ writes' = {}
                          /\ UNCHANGED <<uniforms, undefined>>
       ELSE /\ returned' = TRUE
            /\ writes' = {}
            /\ UNCHANGED <<uniforms, material, materialBefore, undefined>>

(***************************************************************************)
(* Base color, texture and UV scale of the next draw, and the mesh calls.  *)
(* A color component is in tenths.                                         *)
(***************************************************************************)
\* mutant: the use-texture flag is left as it was
WriteColorUniforms_KeepFlag(u, currentColor) ==
    [ u EXCEPT !["objectColor"] = currentColor ]

\* setIntValue(g_UseTextureName, false); setVec4Value(g_ColorValueName, currentColor)
WriteColorUniforms(u, currentColor) ==
    [ u EXCEPT !["bUseTexture"] = 0, !["objectColor"] = currentColor ]

\* void SetShaderColor(redColorValue, greenColorValue, blueColorValue, alphaValue)
SetShaderColor(redColorValue, greenColorValue, blueColorValue, alphaValue) ==
    LET currentColor == << redColorValue, greenColorValue, blueColorValue, alphaValue >>
    IN  /\ call' = [ op |-> "SetShaderColor", filename |-> "", tag |-> "",
                     color |-> currentColor ]
        /\ IF NULL # m_pShaderManager
           THEN /\ uniforms' = WriteColorUniforms(uniforms, currentColor)
                /\ writes' = { "bUseTexture", "objectColor" }
           ELSE /\ UNCHANGED uniforms
                /\ writes' = {}
        /\ returned' = TRUE
        /\ retBool' = FALSE
        /\ retInt' = 0
        /\ UNCHANGED <<textureVars, m_objectMaterials, m_pShaderManager, material,
                       materialBefore, undefined>>

\* mutant: a tag that is not found leaves the sampler as it was
WriteTextureUniforms_SkipNotFound(u, textureID) ==
    IF textureID < 0
    THEN [ u EXCEPT !["bUseTexture"] = 1 ]
    ELSE [ u EXCEPT !["bUseTexture"] = 1, !["objectTexture"] = textureID ]

\* setIntValue(g_UseTextureName, true); setSampler2DValue(g_TextureValueName, textureID)
WriteTextureUniforms(u, textureID) ==
    [ u EXCEPT !["bUseTexture"] = 1, !["objectTexture"] = textureID ]

\* mutant: a tag that is not found ends the call, and the frame, with an error
SetShaderTexture_NotFoundAborts(textureTag) ==
    /\ call' = [ op |-> "SetShaderTexture", filename |-> "", tag |-> textureTag ]
    /\ IF NULL # m_pShaderManager /\ FindTextureSlot(textureTag) >= 0
       THEN /\ uniforms' = WriteTextureUniforms(uniforms, FindTextureSlot(textureTag))
            /\ writes' = { "bUseTexture", "objectTexture" }
            /\ returned' = TRUE
            /\ UNCHANGED undefined
       ELSE /\ UNCHANGED uniforms
            /\ writes' = {}
            /\ returned' = FALSE
            /\ undefined' = TRUE
    /\ retBool' = FALSE
    /\ retInt' = 0
    /\ UNCHANGED <<textureVars, m_objectMaterials, m_pShaderManager, material,
                   materialBefore>>

\* void SetShaderTexture(std::string textureTag)
SetShaderTexture(textureTag) ==
    /\ call' = [ op |-> "SetShaderTexture", filename |-> "", tag |-> textureTag ]
    /\ IF NULL # m_pShaderManager
       THEN LET textureID == FindTextureSlot(textureTag)
            IN  /\ uniforms' = WriteTextureUniforms(uniforms, textureID)
                /\ writes' = { "bUseTexture", "objectTexture" }
       ELSE /\ UNCHANGED uniforms
            /\ writes' = {}
    /\ returned' = TRUE
    /\ retBool' = FALSE
    /\ retInt' = 0
    /\ UNCHANGED <<textureVars, m_objectMaterials, m_pShaderManager, material,
                   materialBefore, undefined>>

\* mutant: the uniform is not written
SetTextureUVScale_NoWrite(u, v) ==
    /\ call' = [ op |-> "SetTextureUVScale", filename |-> "", tag |-> "", uv |-> <<u, v>> ]
    /\ writes' = {}
    /\ returned' = TRUE
    /\ retBool' = FALSE
    /\ retInt' = 0
    /\ UNCHANGED <<textureVars, materialVars, undefined>>

\* void SetTextureUVScale(float u, float v)
SetTextureUVScale(u, v) ==
    /\ call' = [ op |-> "SetTextureUVScale", filename |-> "", tag |-> "", uv |-> <<u, v>> ]
    /\ IF NULL # m_pShaderManager
       THEN /\ uniforms' = [ uniforms EXCEPT !["UVscale"] = <<u, v>> ]
            /\ writes' = { "UVscale" }
       ELSE /\ UNCHANGED uniforms
            /\ writes' = {}
    /\ returned' = TRUE
    /\ retBool' = FALSE
    /\ retInt' = 0
    /\ UNCHANGED <<textureVars, m_objectMaterials, m_pShaderManager, material,
                   materialBefore, undefined>>

\* m_basicMeshes->Draw<Shape>Mesh(): the draw command; the shader reads the
\* uniforms as they are now
DrawMesh(shape) ==
    /\ call' = [ op |-> "DrawMesh", filename |-> "", tag |-> shape ]
    /\ writes' = {}
    /\ returned' = TRUE
    /\ retBool' = FALSE
    /\ retInt' = 0
    /\ UNCHANGED <<textureVars, materialVars, undefined>>

\* the bookkeeping of a call that is not a mesh draw: it joins the calls made
\* since the last draw, and so do the uniforms it wrote
Dispatched ==
    /\ sinceDraw' = Append(sinceDraw, call'.op)
    /\ written' = written \cup writes'
    /\ UNCHANGED <<drawn, meshLoads>>

\* the bookkeeping of a mesh draw: what preceded it and what the shader reads
Drawn(shape) ==
    /\ drawn' = [ shape |-> shape, calls |-> sinceDraw, written |-> written,
                  uniforms |-> uniforms ]
    /\ sinceDraw' = << >>
    /\ written' = {}
    /\ UNCHANGED meshLoads

(***************************************************************************)
(* The calls PrepareScene makes besides the loads and the materials.       *)
(***************************************************************************)
\* mutant: no glActiveTexture, every glBindTexture lands on unit 0
BindGLTextures_NoActiveTexture ==
    /\ call' = [ op |-> "BindGLTextures", filename |-> "", tag |-> "" ]
    /\ glTextureUnits' = IF m_loadedTextures > 0
                         THEN [ glTextureUnits EXCEPT
                                  ![0] = TextureEntry(m_loadedTextures - 1).ID ]
                         ELSE glTextureUnits
    /\ glBoundTexture2D' = IF m_loadedTextures > 0
                           THEN TextureEntry(m_loadedTextures - 1).ID
                           ELSE glBoundTexture2D
    /\ writes' = {}
    /\ returned' = TRUE
    /\ retBool' = FALSE
    /\ retInt' = 0
    /\ UNCHANGED <<m_textureIDs, m_loadedTextures, pastTheEnd, glTextures, liveImages,
                   destroyCalls, materialVars, undefined>>

\* void BindGLTextures(): glActiveTexture(GL_TEXTURE0 + i), then
\* glBindTexture(GL_TEXTURE_2D, m_textureIDs[i].ID), for every i below
\* m_loadedTextures; the last unit stays the active one
BindGLTextures ==
    /\ call' = [ op |-> "BindGLTextures", filename |-> "", tag |-> "" ]
    /\ glTextureUnits' = [ i \in 0..(MaxTextures - 1) |->
                             IF i < m_loadedTextures THEN m_textureIDs[i].ID
                                                     ELSE glTextureUnits[i] ]
    /\ glBoundTexture2D' = IF m_loadedTextures > 0
                           THEN TextureEntry(m_loadedTextures - 1).ID
                           ELSE glBoundTexture2D
    /\ writes' = {}
    /\ returned' = TRUE
    /\ retBool' = FALSE
    /\ retInt' = 0
    /\ UNCHANGED <<m_textureIDs, m_loadedTextures, pastTheEnd, glTextures, liveImages,
                   destroyCalls, materialVars, undefined>>

\* the two light sources as SetupSceneLights leaves them, in hundredths
SceneLights ==
    << [ position |-> <<-1400, 1400, 0>>, ambientColor |-> <<70, 75, 85>>,
         diffuseColor |-> <<70, 75, 85>>, specularColor |-> <<70, 75, 85>>,
         focalStrength |-> 1800, specularIntensity |-> 80 ],
       [ position |-> <<1400, 500, 1400>>, ambientColor |-> <<70, 75, 85>>,
         diffuseColor |-> <<70, 75, 85>>, specularColor |-> <<70, 75, 85>>,
         focalStrength |-> 1800, specularIntensity |-> 80 ] >>

\* void SetupSceneLights(): every statement goes through m_pShaderManager,
\* and none tests it
SetupSceneLights ==
    /\ call' = [ op |-> "SetupSceneLights", filename |-> "", tag |-> "" ]
    /\ IF m_pShaderManager # NULL
       THEN /\ uniforms' = [ uniforms EXCEPT !["lightSources"] = SceneLights,
                                             !["bUseLighting"] = 1 ]
            /\ writes' = { "lightSources", "bUseLighting" }
            /\ returned' = TRUE
            /\ UNCHANGED undefined
       ELSE /\ undefined' = TRUE
            /\ writes' = {}
            /\ UNCHANGED uniforms
            /\ \E outcome \in NullDerefOutcomes : returned' = (outcome = "ignored")
    /\ retBool' = FALSE
    /\ retInt' = 0
    /\ UNCHANGED <<textureVars, m_objectMaterials, m_pShaderManager, material,
                   materialBefore>>

\* m_basicMeshes->Load<Shape>Mesh()
LoadMesh(shape) ==
    /\ call' = [ op |-> "LoadMesh", filename |-> "", tag |-> shape ]
    /\ meshLoads' = [ meshLoads EXCEPT ![shape] = @ + 1 ]
    /\ writes' = {}
    /\ returned' = TRUE
    /\ retBool' = FALSE
    /\ retInt' = 0
    /\ UNCHANGED <<textureVars, materialVars, undefined>>

\* SetTransformations as RenderScene calls it at `line`, with the scale, the
\* three angles and the position assigned just above that line; the composed
\* matrix is named by the line, its entries are not computed
SetTransformationsAt(line) ==
    /\ call' = [ op |-> "SetTransformations", filename |-> "", tag |-> "", line |-> line ]
    /\ IF NULL # m_pShaderManager
       THEN /\ uniforms' = [ uniforms EXCEPT !["model"] = [ modelView |-> line ] ]
            /\ writes' = {"model"}
       ELSE /\ UNCHANGED uniforms
            /\ writes' = {}
    /\ returned' = TRUE
    /\ retBool' = FALSE
    /\ retInt' = 0
    /\ UNCHANGED <<textureVars, m_objectMaterials, m_pShaderManager, material,
                   materialBefore, undefined>>

(***************************************************************************)
(* The state after construction, and the callers.                          *)
(***************************************************************************)
\* the uniforms of a freshly linked shader program are zero
InitialUniforms ==
    [ n \in MaterialUniforms \cup { "model", "objectColor", "bUseTexture",
                                    "objectTexture", "UVscale", "lightSources",
                                    "bUseLighting" } |->
        CASE n \in { "material.ambientStrength", "material.shininess",
                     "bUseTexture", "objectTexture", "bUseLighting" } -> 0
          [] n = "lightSources" -> << >>
          [] n = "model" -> ZeroMatrix
          [] n = "objectColor" -> <<0, 0, 0, 0>>
          [] n = "UVscale" -> <<0, 0>>
          [] OTHER -> <<0, 0, 0>> ]

\* the primitive shapes of ShapeMeshes
Shapes == { "Plane", "Box", "Cylinder", "Cone", "Sphere", "Torus", "TaperedCylinder" }

NoDraw == [ shape |-> "", calls |-> << >>, written |-> {}, uniforms |-> InitialUniforms ]

\* no call of PrepareScene or RenderScene made, no mesh loaded or drawn
NothingRendered ==
    /\ writes = {}
    /\ pc = 0
    /\ sinceDraw = << >>
    /\ written = {}
    /\ drawn = NoDraw
    /\ meshLoads = [ s \in Shapes |-> 0 ]

\* the members the constructor does not assign, as the class declares them:
\* no texture loaded, every slot empty, no material
MemberDefaults ==
    /\ m_textureIDs = [i \in 0..(MaxTextures - 1) |-> EmptySlot]
    /\ m_loadedTextures = 0
    /\ m_objectMaterials = << >>

\* SceneManager(ShaderManager* pShaderManager), before any other call
Constructed(pShaderManager) ==
    /\ m_pShaderManager = pShaderManager
    /\ MemberDefaults
    /\ pastTheEnd = EmptySlot
    /\ glTextures = {}
    /\ glBoundTexture2D = 0
    /\ glTextureUnits = [ i \in 0..(MaxTextures - 1) |-> 0 ]
    /\ liveImages = 0
    /\ destroyCalls = 0
    /\ uniforms = InitialUniforms
    /\ material = ZeroMaterial
    /\ materialBefore = ZeroMaterial
    /\ call = NoCall
    /\ returned = TRUE
    /\ retBool = FALSE
    /\ retInt = 0
    /\ undefined = FALSE
    /\ NothingRendered

\* registered entries that repeat the tag of slot 0
DupLoads ==
    Cardinality({ i \in 1..(m_loadedTextures - 1) :
                    i < MaxTextures /\ m_textureIDs[i].tag = m_textureIDs[0].tag })

\* the tags the caller may pass to the next CreateGLTexture: the next of
\* LoadOrder, or once more the tag of slot 0
LoadTagChoices ==
    { LoadOrder[m_loadedTextures + 1] } \cup
    ( IF m_loadedTextures >= 1 /\ DupLoads + liveImages < MaxIrregularLoads
      THEN { m_textureIDs[0].tag } ELSE {} )

\* a caller loads a texture
LoadTexture ==
    /\ ~undefined
    /\ destroyCalls = 0
    /\ \E filename \in Files, tag \in LoadTagChoices :
         /\ stbi_load(filename).colorChannels \in {1, 2} =>
              DupLoads + liveImages < MaxIrregularLoads
         /\ CreateGLTexture(filename, tag)
    /\ UNCHANGED renderVars

\* a caller resolves a tag to a GPU handle
LookupTextureID ==
    /\ ~undefined
    /\ \E tag \in LookupTags :
         /\ call' = [op |-> "FindTextureID", filename |-> "", tag |-> tag]
         /\ writes' = {}
         /\ UNCHANGED renderVars
         /\ retInt' = FindTextureID(tag)
         /\ returned' = TRUE
         /\ retBool' = FALSE
         /\ UNCHANGED <<textureVars, materialVars, undefined>>

\* a caller resolves a tag to a texture slot
LookupTextureSlot ==
    /\ ~undefined
    /\ \E tag \in LookupTags :
         /\ call' = [op |-> "FindTextureSlot", filename |-> "", tag |-> tag]
         /\ writes' = {}
         /\ UNCHANGED renderVars
         /\ retInt' = FindTextureSlot(tag)
         /\ returned' = TRUE
         /\ retBool' = FALSE
         /\ UNCHANGED <<textureVars, materialVars, undefined>>

\* the scene is torn down
Teardown ==
    /\ ~undefined
    /\ destroyCalls < MaxDestroyCalls
    /\ DestroyGLTextures
    /\ UNCHANGED renderVars

InitTexture == Constructed("shader")

NextTexture == LoadTexture \/ LookupTextureID \/ LookupTextureSlot \/ Teardown

SpecTexture == InitTexture /\ [][NextTexture]_vars

\* how often the model's caller runs DefineObjectMaterials
MaxDefineCalls == 2

\* the materials a caller of FindMaterial passes in
CallerMaterials == { ZeroMaterial, [SceneMaterials[5] EXCEPT !.tag = ""] }

\* materials are defined
DefineMaterials ==
    /\ ~undefined
    /\ Len(m_objectMaterials) < MaxDefineCalls * Len(SceneMaterials)
    /\ DefineObjectMaterials
    /\ UNCHANGED renderVars

\* a caller resolves a material tag
LookupMaterial ==
    /\ ~undefined
    /\ \E tag \in MaterialTags, mat \in CallerMaterials :
         LET found == FindMaterial(tag, mat)
         IN  /\ call' = [op |-> "FindMaterial", filename |-> "", tag |-> tag]
             /\ writes' = {}
             /\ UNCHANGED renderVars
             /\ retBool' = found.ret
             /\ material' = found.material
             /\ materialBefore' = mat
             /\ returned' = TRUE
             /\ retInt' = 0
             /\ UNCHANGED <<textureVars, m_objectMaterials, m_pShaderManager,
                            uniforms, undefined>>

\* a caller sets the material of the next draw
SetMaterial ==
    /\ ~undefined
    /\ \E tag \in MaterialTags : SetShaderMaterial(tag)
    /\ UNCHANGED renderVars

InitMaterial == \E pShaderManager \in { NULL, "shader" } : Constructed(pShaderManager)

NextMaterial == DefineMaterials \/ LookupMaterial \/ SetMaterial

SpecMaterial == InitMaterial /\ [][NextMaterial]_vars

(***************************************************************************)
(* FindMaterial and SetShaderMaterial as functions of the registry: the    *)
(* registry is an input, drawn from the short lists of entries a           *)
(* DefineObjectMaterials can push, among them two entries that share a tag *)
(* and differ in every value.                                              *)
(***************************************************************************)
\* the longest registry drawn
MaxMaterials == 3

\* the entries a drawn registry is made of: "redKick", "redKick" once more
\* with the values of another material, and "whiteWall"
DrawnMaterials ==
    { SceneMaterials[1],
      [SceneMaterials[3] EXCEPT !.tag = SceneMaterials[1].tag],
      SceneMaterials[6] }

DrawnRegistries == UNION { [1..n -> DrawnMaterials] : n \in 0..MaxMaterials }

\* the state after construction and after the push_back calls that made
\* m_objectMaterials what `materials` is
Populated(pShaderManager, materials) ==
    /\ m_pShaderManager = pShaderManager
    /\ m_objectMaterials = materials
    /\ m_textureIDs = [i \in 0..(MaxTextures - 1) |-> EmptySlot]
    /\ m_loadedTextures = 0
    /\ pastTheEnd = EmptySlot
    /\ glTextures = {}
    /\ glBoundTexture2D = 0
    /\ glTextureUnits = [ i \in 0..(MaxTextures - 1) |-> 0 ]
    /\ liveImages = 0
    /\ destroyCalls = 0
    /\ uniforms = InitialUniforms
    /\ material = ZeroMaterial
    /\ materialBefore = ZeroMaterial
    /\ call = NoCall
    /\ returned = TRUE
    /\ retBool = FALSE
    /\ retInt = 0
    /\ undefined = FALSE
    /\ NothingRendered

InitResolve ==
    \E pShaderManager \in { NULL, "shader" }, materials \in DrawnRegistries :
        Populated(pShaderManager, materials)

NextResolve == LookupMaterial \/ SetMaterial

SpecResolve == InitResolve /\ [][NextResolve]_vars

(***************************************************************************)
(* SetTransformations over integer scales and positions and quarter-turn   *)
(* rotations.                                                              *)
(***************************************************************************)
TransformScales == { <<1, 1, 1>>, <<2, 1, 1>>, <<2, 3, 4>> }
TransformDegrees == { 0, 90, 180, -90 }
TransformPositions == { <<0, 0, 0>>, <<5, 0, 0>>, <<1, -2, 3>> }

\* a caller sets the transformation of the next draw
SetTransform ==
    /\ ~undefined
    /\ \E scaleXYZ \in TransformScales, positionXYZ \in TransformPositions,
          X \in TransformDegrees, Y \in TransformDegrees, Z \in TransformDegrees :
         SetTransformations(scaleXYZ, X, Y, Z, positionXYZ)
    /\ UNCHANGED renderVars

InitTransform == \E pShaderManager \in { NULL, "shader" } : Constructed(pShaderManager)

NextTransform == SetTransform

SpecTransform == InitTransform /\ [][NextTransform]_vars

(***************************************************************************)
(* Color, texture and draw calls in any order, on a registry that holds    *)
(* the first textures of the scene.                                        *)
(***************************************************************************)
MaxDispatchCalls == 2

\* how many of LoadSceneTextures' loads have been made
LoadedCounts == { 0, 8, MaxTextures }

Colors == { <<2, 2, 2, 10>>, <<10, 0, 10, 10>> }

DrawnShapes == { "Box", "Plane" }

\* the state after the first n CreateGLTexture calls of LoadSceneTextures,
\* each of them successful
Loaded(pShaderManager, n) ==
    /\ m_pShaderManager = pShaderManager
    /\ m_textureIDs = [ i \in 0..(MaxTextures - 1) |->
                          IF i < n THEN [ID |-> i + 1, tag |-> SceneTextureTags[i + 1]]
                                   ELSE EmptySlot ]
    /\ m_loadedTextures = n
    /\ m_objectMaterials = << >>
    /\ pastTheEnd = EmptySlot
    /\ glTextures = 1..n
    /\ glBoundTexture2D = 0
    /\ glTextureUnits = [ i \in 0..(MaxTextures - 1) |-> 0 ]
    /\ liveImages = 0
    /\ destroyCalls = 0
    /\ uniforms = InitialUniforms
    /\ material = ZeroMaterial
    /\ materialBefore = ZeroMaterial
    /\ call = NoCall
    /\ returned = TRUE
    /\ retBool = FALSE
    /\ retInt = 0
    /\ undefined = FALSE
    /\ NothingRendered

\* a caller sets the base color of the next draw
SetColor ==
    /\ ~undefined
    /\ Len(sinceDraw) < MaxDispatchCalls
    /\ \E color \in Colors : SetShaderColor(color[1], color[2], color[3], color[4])
    /\ Dispatched
    /\ UNCHANGED pc

\* a caller sets the texture of the next draw
SetTexture ==
    /\ ~undefined
    /\ Len(sinceDraw) < MaxDispatchCalls
    /\ \E tag \in LookupTags : SetShaderTexture(tag)
    /\ Dispatched
    /\ UNCHANGED pc

\* a caller draws a mesh
Draw ==
    /\ ~undefined
    /\ \E shape \in DrawnShapes :
         /\ DrawMesh(shape)
         /\ Drawn(shape)
    /\ UNCHANGED pc

InitShader ==
    \E pShaderManager \in { NULL, "shader" }, n \in LoadedCounts :
        Loaded(pShaderManager, n)

NextShader == SetColor \/ SetTexture \/ Draw

SpecShader == InitShader /\ [][NextShader]_vars

(***************************************************************************)
(* PrepareScene, then one RenderScene: the calls they make, one per step.  *)
(* A call is [op, arg, line]: the method, its argument (a tag, a shape, a  *)
(* color in tenths) and the source line of the call.                       *)
(***************************************************************************)
MaxFailedLoads == 1

Call(op, arg, line) == [ op |-> op, arg |-> arg, line |-> line ]

\* the source lines of the sixteen CreateGLTexture calls of LoadSceneTextures
LoadLines == << 381, 384, 387, 392, 396, 401, 406, 412, 417, 422, 427, 432, 437,
                441, 445, 449 >>

\* what the image files of the scene may turn out to be when they are loaded
SceneFiles == { "rgb.jpg", "missing.jpg" }

\* mutant: PrepareScene without its last statement, LoadSphereMesh
PrepareSceneCalls_NoSphereMesh ==
    [ k \in 1..Len(SceneTextureTags) |->
        Call("CreateGLTexture", SceneTextureTags[k], LoadLines[k]) ]
    \o << Call("BindGLTextures", "", 456), Call("DefineObjectMaterials", "", 631),
          Call("SetupSceneLights", "", 632), Call("LoadMesh", "Plane", 637),
          Call("LoadMesh", "TaperedCylinder", 638), Call("LoadMesh", "Cylinder", 639),
          Call("LoadMesh", "Cone", 640), Call("LoadMesh", "Box", 641),
          Call("LoadMesh", "Torus", 642) >>

\* PrepareScene: LoadSceneTextures (sixteen loads, BindGLTextures),
\* DefineObjectMaterials, SetupSceneLights, the seven mesh loads
PrepareSceneCalls ==
    [ k \in 1..Len(SceneTextureTags) |->
        Call("CreateGLTexture", SceneTextureTags[k], LoadLines[k]) ]
    \o << Call("BindGLTextures", "", 456), Call("DefineObjectMaterials", "", 631),
          Call("SetupSceneLights", "", 632), Call("LoadMesh", "Plane", 637),
          Call("LoadMesh", "TaperedCylinder", 638), Call("LoadMesh", "Cylinder", 639),
          Call("LoadMesh", "Cone", 640), Call("LoadMesh", "Box", 641),
          Call("LoadMesh", "Torus", 642), Call("LoadMesh", "Sphere", 643) >>

\* RenderScene: every call of its body, in source order
RenderSceneCalls ==
    <<
      Call("SetTextureUVScale", <<20, 20>>, 660), Call("SetTransformations", 682, 682),
      Call("SetShaderColor", <<0, 10, 10, 10>>, 689), Call("SetShaderTexture", "wall", 690),
      Call("SetShaderMaterial", "whiteWall", 691), Call("DrawMesh", "Plane", 694),
      Call("SetTransformations", 709, 709), Call("SetShaderColor", <<0, 10, 5, 10>>, 716),
      Call("SetShaderTexture", "wall", 717), Call("SetShaderMaterial", "whiteWall", 718),
      Call("DrawMesh", "Plane", 721),
      Call("DrawMesh", "Plane", 725),
      Call("SetTransformations", 740, 740), Call("SetShaderColor", <<10, 10, 10, 10>>, 747),
      Call("SetShaderTexture", "floor", 748),
      Call("SetShaderMaterial", "whiteHardwoodFloor", 749), Call("DrawMesh", "Plane", 752),
      Call("SetTransformations", 769, 769), Call("SetShaderColor", <<10, 10, 10, 10>>, 776),
      Call("SetShaderTexture", "wall", 777), Call("SetShaderMaterial", "whiteWall", 778),
      Call("DrawMesh", "Plane", 781),
      Call("SetTransformations", 797, 797), Call("SetShaderColor", <<10, 10, 10, 10>>, 804),
      Call("SetShaderTexture", "wall", 805), Call("SetShaderMaterial", "whiteWall", 806),
      Call("DrawMesh", "Plane", 809),
      Call("SetTransformations", 825, 825), Call("SetShaderColor", <<10, 10, 10, 10>>, 832),
      Call("SetShaderTexture", "wall", 833), Call("SetShaderMaterial", "whiteWall", 834),
      Call("DrawMesh", "Plane", 837),
      Call("SetTransformations", 852, 852), Call("SetShaderColor", <<10, 10, 10, 10>>, 859),
      Call("SetShaderTexture", "wall", 860), Call("SetShaderMaterial", "whiteWall", 861),
      Call("DrawMesh", "Plane", 864),
      Call("SetTransformations", 879, 879), Call("SetShaderColor", <<10, 10, 10, 10>>, 886),
      Call("SetShaderTexture", "wall", 887), Call("SetShaderMaterial", "whiteWall", 888),
      Call("DrawMesh", "Plane", 891),
      Call("SetTransformations", 907, 907), Call("SetShaderColor", <<10, 10, 10, 10>>, 914),
      Call("SetShaderTexture", "wall", 915), Call("SetShaderMaterial", "whiteWall", 916),
      Call("DrawMesh", "Plane", 919),
      Call("SetTransformations", 940, 940), Call("SetShaderColor", <<10, 0, 10, 10>>, 947),
      Call("SetShaderTexture", "window", 948), Call("SetShaderMaterial", "Window", 949),
      Call("DrawMesh", "Plane", 952),
      Call("SetTransformations", 969, 969), Call("SetShaderColor", <<10, 0, 10, 10>>, 976),
      Call("SetShaderTexture", "window_wall", 977),
      Call("SetShaderMaterial", "whiteWall", 978), Call("DrawMesh", "Box", 981),
      Call("SetTransformations", 997, 997), Call("SetShaderColor", <<10, 0, 10, 10>>, 1004),
      Call("SetShaderTexture", "window_wall", 1005),
      Call("SetShaderMaterial", "whiteWall", 1006), Call("DrawMesh", "Box", 1009),
      Call("SetTransformations", 1025, 1025), Call("SetShaderColor", <<10, 0, 10, 10>>, 1032),
      Call("SetShaderTexture", "window_wall", 1033),
      Call("SetShaderMaterial", "whiteWall", 1034), Call("DrawMesh", "Box", 1037),
      Call("SetTransformations", 1053, 1053), Call("SetShaderColor", <<10, 0, 10, 10>>, 1060),
      Call("SetShaderTexture", "window_wall", 1061),
      Call("SetShaderMaterial", "whiteWall", 1062), Call("DrawMesh", "Box", 1065),
      Call("SetTransformations", 1081, 1081), Call("SetShaderColor", <<10, 0, 10, 10>>, 1088),
      Call("SetShaderTexture", "window_wall", 1089),
      Call("SetShaderMaterial", "whiteWall", 1090), Call("DrawMesh", "Box", 1093),
      Call("SetTransformations", 1113, 1113), Call("SetShaderColor", <<10, 10, 0, 10>>, 1120),
      Call("SetShaderTexture", "double_doors", 1121),
      Call("SetShaderMaterial", "whiteDoor", 1122), Call("DrawMesh", "Plane", 1125),
      Call("SetTransformations", 1140, 1140), Call("SetShaderColor", <<10, 10, 10, 10>>, 1147),
      Call("SetShaderTexture", "wall", 1148), Call("SetShaderTexture", "whiteWall", 1149),
      Call("DrawMesh", "Plane", 1152),
      Call("SetTransformations", 1168, 1168), Call("SetShaderColor", <<10, 4, 10, 10>>, 1175),
      Call("SetShaderTexture", "weight_mats", 1176),
      Call("SetShaderMaterial", "floorMat", 1177), Call("DrawMesh", "Plane", 1180),
      Call("SetTransformations", 1197, 1197), Call("SetShaderColor", <<10, 4, 10, 10>>, 1204),
      Call("SetShaderTexture", "weight_mats", 1205),
      Call("SetShaderMaterial", "floorMat", 1206), Call("DrawMesh", "Plane", 1209),
      Call("SetTransformations", 1226, 1226), Call("SetShaderColor", <<10, 4, 10, 10>>, 1233),
      Call("SetShaderTexture", "weight_mats", 1234),
      Call("SetShaderMaterial", "floorMat", 1235), Call("DrawMesh", "Plane", 1238),
      Call("SetTransformations", 1263, 1263), Call("SetShaderTexture", "kickstand", 1271),
      Call("SetShaderMaterial", "KickStand", 1272), Call("DrawMesh", "TaperedCylinder", 1275),
      Call("SetTransformations", 1293, 1293), Call("SetShaderColor", <<10, 0, 0, 10>>, 1300),
      Call("SetShaderTexture", "kickstand", 1301),
      Call("SetShaderMaterial", "KickStand", 1302), Call("DrawMesh", "Cone", 1305),
      Call("SetTransformations", 1323, 1323), Call("SetShaderTexture", "kickbag", 1331),
      Call("SetShaderMaterial", "redKick", 1332), Call("DrawMesh", "Cylinder", 1335),
      Call("SetTransformations", 1357, 1357), Call("SetShaderColor", <<0, 10, 10, 10>>, 1364),
      Call("SetShaderTexture", "window", 1365), Call("SetShaderMaterial", "glassMirror", 1366),
      Call("DrawMesh", "Plane", 1369),
      Call("SetTransformations", 1385, 1385), Call("SetShaderColor", <<0, 10, 10, 10>>, 1392),
      Call("SetShaderTexture", "window", 1393), Call("SetShaderMaterial", "glassMirror", 1394),
      Call("DrawMesh", "Plane", 1397),
      Call("SetTransformations", 1413, 1413), Call("SetShaderColor", <<2, 2, 2, 10>>, 1420),
      Call("SetShaderTexture", "tv", 1421), Call("SetShaderMaterial", "blackTVScreen", 1422),
      Call("DrawMesh", "Box", 1425),
      Call("SetTransformations", 1441, 1441), Call("SetShaderColor", <<2, 2, 2, 10>>, 1448),
      Call("SetShaderTexture", "wall_mat", 1449), Call("SetShaderMaterial", "floorMat", 1450),
      Call("DrawMesh", "Box", 1453),
      Call("SetTransformations", 1474, 1474), Call("SetShaderColor", <<7, 7, 7, 10>>, 1481),
      Call("SetShaderTexture", "dumbell_steel_white", 1482),
      Call("SetShaderMaterial", "darkMetallicDumbbell", 1483), Call("DrawMesh", "Torus", 1486),
      Call("SetTransformations", 1502, 1502), Call("SetShaderColor", <<5, 5, 5, 10>>, 1509),
      Call("SetShaderTexture", "dumbell_steel_white", 1510),
      Call("SetShaderMaterial", "darkMetallicDumbbell", 1511), Call("DrawMesh", "Torus", 1514),
      Call("SetTransformations", 1530, 1530), Call("SetShaderColor", <<3, 3, 3, 10>>, 1537),
      Call("SetShaderTexture", "dumbell_steel_white", 1538),
      Call("SetShaderMaterial", "darkMetallicDumbbell", 1539), Call("DrawMesh", "Torus", 1542),
      Call("SetTransformations", 1558, 1558), Call("SetShaderColor", <<3, 3, 3, 10>>, 1565),
      Call("SetShaderTexture", "dumbell_steel_white", 1566),
      Call("SetShaderMaterial", "darkMetallicDumbbell", 1567), Call("DrawMesh", "Torus", 1570),
      Call("SetTransformations", 1592, 1592), Call("SetShaderColor", <<2, 2, 2, 10>>, 1599),
      Call("SetShaderTexture", "dumbell_steel", 1600),
      Call("SetShaderMaterial", "darkMetallicDumbbell", 1601), Call("DrawMesh", "Torus", 1604),
      Call("SetTransformations", 1620, 1620), Call("SetShaderColor", <<2, 2, 2, 10>>, 1627),
      Call("SetShaderTexture", "kettlebell_blue", 1628), Call("DrawMesh", "Sphere", 1631),
      Call("SetTransformations", 1647, 1647), Call("SetShaderColor", <<2, 2, 2, 10>>, 1654),
      Call("SetShaderTexture", "dumbell_steel", 1655),
      Call("SetShaderMaterial", "darkMetallicDumbbell", 1656), Call("DrawMesh", "Torus", 1659),
      Call("SetTransformations", 1675, 1675), Call("SetShaderColor", <<2, 2, 2, 10>>, 1682),
      Call("SetShaderTexture", "kettlebell_blue", 1683), Call("DrawMesh", "Sphere", 1686),
      Call("SetTransformations", 1702, 1702), Call("SetShaderColor", <<2, 2, 2, 10>>, 1709),
      Call("SetShaderTexture", "dumbell_steel", 1710),
      Call("SetShaderMaterial", "darkMetallicDumbbell", 1711), Call("DrawMesh", "Torus", 1714),
      Call("SetTransformations", 1730, 1730), Call("SetShaderColor", <<2, 2, 2, 10>>, 1737),
      Call("SetShaderTexture", "kettlebell_blue", 1738), Call("DrawMesh", "Sphere", 1741),
      Call("SetTransformations", 1758, 1758), Call("SetShaderColor", <<2, 2, 2, 10>>, 1765),
      Call("SetShaderTexture", "dumbell_steel", 1766),
      Call("SetShaderMaterial", "darkMetallicDumbbell", 1767), Call("DrawMesh", "Torus", 1770),
      Call("SetTransformations", 1786, 1786), Call("SetShaderColor", <<2, 2, 2, 10>>, 1793),
      Call("SetShaderTexture", "kettlebell_blue", 1794), Call("DrawMesh", "Sphere", 1797),
      Call("SetTransformations", 1816, 1816), Call("SetShaderColor", <<2, 2, 2, 10>>, 1823),
      Call("SetShaderTexture", "dumbell_steel", 1824),
      Call("SetShaderMaterial", "darkMetallicDumbbell", 1825),
      Call("DrawMesh", "Cylinder", 1828),
      Call("SetTransformations", 1844, 1844), Call("SetShaderColor", <<2, 2, 2, 10>>, 1851),
      Call("SetShaderTexture", "dumbell_steel", 1852),
      Call("SetShaderMaterial", "darkMetallicDumbbell", 1853), Call("DrawMesh", "Box", 1856),
      Call("SetTransformations", 1871, 1871), Call("SetShaderColor", <<2, 2, 2, 10>>, 1878),
      Call("SetShaderTexture", "dumbell_steel", 1879),
      Call("SetShaderMaterial", "darkMetallicDumbbell", 1880), Call("DrawMesh", "Box", 1883),
      Call("SetTransformations", 1898, 1898), Call("SetShaderColor", <<2, 2, 2, 10>>, 1905),
      Call("SetShaderTexture", "dumbell_steel", 1906),
      Call("SetShaderMaterial", "darkMetallicDumbbell", 1907), Call("DrawMesh", "Box", 1910),
      Call("SetTransformations", 1925, 1925), Call("SetShaderColor", <<2, 2, 2, 10>>, 1932),
      Call("SetShaderTexture", "dumbell_steel", 1933),
      Call("SetShaderMaterial", "darkMetallicDumbbell", 1934), Call("DrawMesh", "Box", 1937),
      Call("SetTransformations", 1953, 1953), Call("SetShaderColor", <<2, 2, 2, 10>>, 1960),
      Call("SetShaderTexture", "dumbell_steel", 1961),
      Call("SetShaderMaterial", "darkMetallicDumbbell", 1962),
      Call("DrawMesh", "Cylinder", 1965),
      Call("SetTransformations", 1980, 1980), Call("SetShaderColor", <<2, 2, 2, 10>>, 1987),
      Call("SetShaderTexture", "dumbell_steel", 1988),
      Call("SetShaderMaterial", "darkMetallicDumbbell", 1989), Call("DrawMesh", "Box", 1992),
      Call("SetTransformations", 2007, 2007), Call("SetShaderColor", <<2, 2, 2, 10>>, 2014),
      Call("SetShaderTexture", "dumbell_steel", 2015),
      Call("SetShaderMaterial", "darkMetallicDumbbell", 2016), Call("DrawMesh", "Box", 2019),
      Call("SetTransformations", 2036, 2036), Call("SetShaderColor", <<2, 2, 2, 10>>, 2043),
      Call("SetShaderTexture", "dumbell_steel", 2044),
      Call("SetShaderMaterial", "darkMetallicDumbbell", 2045),
      Call("DrawMesh", "Cylinder", 2048),
      Call("SetTransformations", 2063, 2063), Call("SetShaderColor", <<2, 2, 2, 10>>, 2070),
      Call("SetShaderTexture", "dumbell_steel", 2071),
      Call("SetShaderMaterial", "darkMetallicDumbbell", 2072), Call("DrawMesh", "Box", 2075),
      Call("SetTransformations", 2090, 2090), Call("SetShaderColor", <<2, 2, 2, 10>>, 2097),
      Call("SetShaderTexture", "dumbell_steel", 2098),
      Call("SetShaderMaterial", "darkMetallicDumbbell", 2099), Call("DrawMesh", "Box", 2102),
      Call("SetTransformations", 2122, 2122), Call("SetShaderColor", <<2, 2, 2, 10>>, 2129),
      Call("SetShaderTexture", "dumbell_steel", 2130),
      Call("SetShaderMaterial", "darkMetallicDumbbell", 2131),
      Call("DrawMesh", "Cylinder", 2134),
      Call("SetTransformations", 2149, 2149), Call("SetShaderColor", <<2, 2, 2, 10>>, 2156),
      Call("SetShaderTexture", "dumbell_steel", 2157),
      Call("SetShaderMaterial", "darkMetallicDumbbell", 2158), Call("DrawMesh", "Box", 2161),
      Call("SetTransformations", 2176, 2176), Call("SetShaderColor", <<2, 2, 2, 10>>, 2183),
      Call("SetShaderTexture", "dumbell_steel", 2184),
      Call("SetShaderMaterial", "darkMetallicDumbbell", 2185), Call("DrawMesh", "Box", 2188),
      Call("SetTransformations", 2206, 2206), Call("SetShaderColor", <<2, 2, 2, 10>>, 2213),
      Call("SetShaderTexture", "dumbell_orange", 2214),
      Call("SetShaderMaterial", "rubberDumbell", 2215), Call("DrawMesh", "Cylinder", 2218),
      Call("SetTransformations", 2233, 2233), Call("SetShaderColor", <<2, 2, 2, 10>>, 2240),
      Call("SetShaderTexture", "dumbell_orange", 2241),
      Call("SetShaderMaterial", "rubberDumbell", 2242), Call("DrawMesh", "Box", 2245),
      Call("SetTransformations", 2260, 2260), Call("SetShaderColor", <<2, 2, 2, 10>>, 2267),
      Call("SetShaderTexture", "dumbell_orange", 2268),
      Call("SetShaderMaterial", "rubberDumbell", 2269), Call("DrawMesh", "Box", 2272),
      Call("SetTransformations", 2288, 2288), Call("SetShaderColor", <<2, 2, 2, 10>>, 2295),
      Call("SetShaderTexture", "dumbell_orange", 2296),
      Call("SetShaderMaterial", "rubberDumbell", 2297), Call("DrawMesh", "Cylinder", 2300),
      Call("SetTransformations", 2315, 2315), Call("SetShaderColor", <<2, 2, 2, 10>>, 2322),
      Call("SetShaderTexture", "dumbell_orange", 2323),
      Call("SetShaderMaterial", "rubberDumbell", 2324), Call("DrawMesh", "Box", 2327),
      Call("SetTransformations", 2342, 2342), Call("SetShaderColor", <<2, 2, 2, 10>>, 2349),
      Call("SetShaderTexture", "dumbell_orange", 2350),
      Call("SetShaderMaterial", "rubberDumbell", 2351), Call("DrawMesh", "Box", 2354),
      Call("SetTransformations", 2371, 2371), Call("SetShaderColor", <<2, 2, 2, 10>>, 2378),
      Call("SetShaderTexture", "dumbell_pink", 2379),
      Call("SetShaderMaterial", "rubberDumbell", 2380), Call("DrawMesh", "Cylinder", 2383),
      Call("SetTransformations", 2398, 2398), Call("SetShaderColor", <<2, 2, 2, 10>>, 2405),
      Call("SetShaderTexture", "dumbell_pink", 2406),
      Call("SetShaderMaterial", "rubberDumbell", 2407), Call("DrawMesh", "Box", 2410),
      Call("SetTransformations", 2425, 2425), Call("SetShaderColor", <<2, 2, 2, 10>>, 2432),
      Call("SetShaderTexture", "dumbell_pink", 2433),
      Call("SetShaderMaterial", "rubberDumbell", 2434), Call("DrawMesh", "Box", 2437),
      Call("SetTransformations", 2454, 2454), Call("SetShaderColor", <<2, 2, 2, 10>>, 2461),
      Call("SetShaderTexture", "dumbell_grey", 2462),
      Call("SetShaderMaterial", "rubberDumbell", 2463), Call("DrawMesh", "Cylinder", 2466),
      Call("SetTransformations", 2481, 2481), Call("SetShaderColor", <<2, 2, 2, 10>>, 2488),
      Call("SetShaderTexture", "dumbell_grey", 2489),
      Call("SetShaderMaterial", "rubberDumbell", 2490), Call("DrawMesh", "Box", 2493),
      Call("SetTransformations", 2508, 2508), Call("SetShaderColor", <<2, 2, 2, 10>>, 2515),
      Call("SetShaderTexture", "dumbell_grey", 2516),
      Call("SetShaderMaterial", "rubberDumbell", 2517), Call("DrawMesh", "Box", 2520),
      Call("SetTransformations", 2537, 2537), Call("SetShaderColor", <<2, 2, 2, 10>>, 2544),
      Call("SetShaderTexture", "dumbell_steel", 2545),
      Call("SetShaderMaterial", "darkMetallicDumbbell", 2546),
      Call("DrawMesh", "Cylinder", 2549),
      Call("SetTransformations", 2564, 2564), Call("SetShaderColor", <<2, 2, 2, 10>>, 2571),
      Call("SetShaderTexture", "dumbell_steel", 2572),
      Call("SetShaderMaterial", "darkMetallicDumbbell", 2573), Call("DrawMesh", "Box", 2576),
      Call("SetTransformations", 2591, 2591), Call("SetShaderColor", <<2, 2, 2, 10>>, 2598),
      Call("SetShaderTexture", "dumbell_steel", 2599),
      Call("SetShaderMaterial", "darkMetallicDumbbell", 2600), Call("DrawMesh", "Box", 2603),
      Call("SetTransformations", 2620, 2620), Call("SetShaderColor", <<2, 2, 2, 10>>, 2627),
      Call("SetShaderTexture", "dumbell_steel", 2628),
      Call("SetShaderMaterial", "darkMetallicDumbbell", 2629),
      Call("DrawMesh", "Cylinder", 2632),
      Call("SetTransformations", 2647, 2647), Call("SetShaderColor", <<2, 2, 2, 10>>, 2654),
      Call("SetShaderTexture", "dumbell_steel", 2655),
      Call("SetShaderMaterial", "darkMetallicDumbbell", 2656), Call("DrawMesh", "Box", 2659),
      Call("SetTransformations", 2674, 2674), Call("SetShaderColor", <<2, 2, 2, 10>>, 2681),
      Call("SetShaderTexture", "dumbell_steel", 2682),
      Call("SetShaderMaterial", "darkMetallicDumbbell", 2683), Call("DrawMesh", "Box", 2686),
      Call("SetTransformations", 2704, 2704), Call("SetShaderColor", <<2, 2, 2, 10>>, 2711),
      Call("SetShaderTexture", "dumbell_steel", 2712),
      Call("SetShaderMaterial", "darkMetallicDumbbell", 2713),
      Call("DrawMesh", "Cylinder", 2716),
      Call("SetTransformations", 2731, 2731), Call("SetShaderColor", <<2, 2, 2, 10>>, 2738),
      Call("SetShaderTexture", "dumbell_steel", 2739),
      Call("SetShaderMaterial", "darkMetallicDumbbell", 2740), Call("DrawMesh", "Box", 2743),
      Call("SetTransformations", 2758, 2758), Call("SetShaderColor", <<2, 2, 2, 10>>, 2765),
      Call("SetShaderTexture", "dumbell_steel", 2766),
      Call("SetShaderMaterial", "darkMetallicDumbbell", 2767), Call("DrawMesh", "Box", 2770),
      Call("SetTransformations", 2787, 2787), Call("SetShaderColor", <<2, 2, 2, 10>>, 2794),
      Call("SetShaderTexture", "dumbell_steel", 2795),
      Call("SetShaderMaterial", "darkMetallicDumbbell", 2796),
      Call("DrawMesh", "Cylinder", 2799),
      Call("SetTransformations", 2814, 2814), Call("SetShaderColor", <<2, 2, 2, 10>>, 2821),
      Call("SetShaderTexture", "dumbell_steel", 2822),
      Call("SetShaderMaterial", "darkMetallicDumbbell", 2823), Call("DrawMesh", "Box", 2826),
      Call("SetTransformations", 2841, 2841), Call("SetShaderColor", <<2, 2, 2, 10>>, 2848),
      Call("SetShaderTexture", "dumbell_steel", 2849),
      Call("SetShaderMaterial", "darkMetallicDumbbell", 2850), Call("DrawMesh", "Box", 2853),
      Call("SetTransformations", 2870, 2870), Call("SetShaderColor", <<2, 2, 2, 10>>, 2877),
      Call("SetShaderTexture", "dumbell_steel", 2878),
      Call("SetShaderMaterial", "darkMetallicDumbbell", 2879),
      Call("DrawMesh", "Cylinder", 2882),
      Call("SetTransformations", 2897, 2897), Call("SetShaderColor", <<2, 2, 2, 10>>, 2904),
      Call("SetShaderTexture", "dumbell_steel", 2905),
      Call("SetShaderMaterial", "darkMetallicDumbbell", 2906), Call("DrawMesh", "Box", 2909),
      Call("SetTransformations", 2924, 2924), Call("SetShaderColor", <<2, 2, 2, 10>>, 2931),
      Call("SetShaderTexture", "dumbell_steel", 2932),
      Call("SetShaderMaterial", "darkMetallicDumbbell", 2933), Call("DrawMesh", "Box", 2936),
      Call("SetTransformations", 2954, 2954), Call("SetShaderColor", <<2, 2, 2, 10>>, 2961),
      Call("SetShaderTexture", "dumbell_steel", 2962),
      Call("SetShaderMaterial", "darkMetallicDumbbell", 2963),
      Call("DrawMesh", "Cylinder", 2966),
      Call("SetTransformations", 2981, 2981), Call("SetShaderColor", <<2, 2, 2, 10>>, 2988),
      Call("SetShaderTexture", "dumbell_steel", 2989),
      Call("SetShaderMaterial", "darkMetallicDumbbell", 2990), Call("DrawMesh", "Box", 2993),
      Call("SetTransformations", 3008, 3008), Call("SetShaderColor", <<2, 2, 2, 10>>, 3015),
      Call("SetShaderTexture", "dumbell_steel", 3016),
      Call("SetShaderMaterial", "darkMetallicDumbbell", 3017), Call("DrawMesh", "Box", 3020),
      Call("SetTransformations", 3038, 3038), Call("SetShaderColor", <<2, 2, 2, 10>>, 3045),
      Call("SetShaderTexture", "dumbell_steel", 3046),
      Call("SetShaderMaterial", "darkMetallicDumbbell", 3047),
      Call("DrawMesh", "Cylinder", 3050),
      Call("SetTransformations", 3065, 3065), Call("SetShaderColor", <<2, 2, 2, 10>>, 3072),
      Call("SetShaderTexture", "dumbell_steel", 3073),
      Call("SetShaderMaterial", "darkMetallicDumbbell", 3074), Call("DrawMesh", "Box", 3077),
      Call("SetTransformations", 3092, 3092), Call("SetShaderColor", <<2, 2, 2, 10>>, 3099),
      Call("SetShaderTexture", "dumbell_steel", 3100),
      Call("SetShaderMaterial", "darkMetallicDumbbell", 3101), Call("DrawMesh", "Box", 3104),
      Call("SetTransformations", 3121, 3121), Call("SetShaderColor", <<2, 2, 2, 10>>, 3128),
      Call("SetShaderTexture", "dumbell_steel", 3129),
      Call("SetShaderMaterial", "darkMetallicDumbbell", 3130),
      Call("DrawMesh", "Cylinder", 3133),
      Call("SetTransformations", 3148, 3148), Call("SetShaderColor", <<2, 2, 2, 10>>, 3155),
      Call("SetShaderTexture", "dumbell_steel", 3156),
      Call("SetShaderMaterial", "darkMetallicDumbbell", 3157), Call("DrawMesh", "Box", 3160),
      Call("SetTransformations", 3175, 3175), Call("SetShaderColor", <<2, 2, 2, 10>>, 3182),
      Call("SetShaderTexture", "dumbell_steel", 3183),
      Call("SetShaderMaterial", "darkMetallicDumbbell", 3184), Call("DrawMesh", "Box", 3187),
      Call("SetTransformations", 3206, 3206), Call("SetShaderColor", <<2, 2, 2, 10>>, 3213),
      Call("SetShaderTexture", "dumbell_steel", 3214),
      Call("SetShaderMaterial", "darkMetallicDumbbell", 3215),
      Call("DrawMesh", "Cylinder", 3218),
      Call("SetTransformations", 3233, 3233), Call("SetShaderColor", <<2, 2, 2, 10>>, 3240),
      Call("SetShaderTexture", "dumbell_steel", 3241),
      Call("SetShaderMaterial", "darkMetallicDumbbell", 3242), Call("DrawMesh", "Box", 3245),
      Call("SetTransformations", 3260, 3260), Call("SetShaderColor", <<2, 2, 2, 10>>, 3267),
      Call("SetShaderTexture", "dumbell_steel", 3268),
      Call("SetShaderMaterial", "darkMetallicDumbbell", 3269), Call("DrawMesh", "Box", 3272),
      Call("SetTransformations", 3288, 3288), Call("SetShaderColor", <<2, 2, 2, 10>>, 3295),
      Call("SetShaderTexture", "dumbell_steel", 3296),
      Call("SetShaderMaterial", "darkMetallicDumbbell", 3297),
      Call("DrawMesh", "Cylinder", 3300),
      Call("SetTransformations", 3315, 3315), Call("SetShaderColor", <<2, 2, 2, 10>>, 3322),
      Call("SetShaderTexture", "dumbell_steel", 3323),
      Call("SetShaderMaterial", "darkMetallicDumbbell", 3324), Call("DrawMesh", "Box", 3327),
      Call("SetTransformations", 3342, 3342), Call("SetShaderColor", <<2, 2, 2, 10>>, 3349),
      Call("SetShaderTexture", "dumbell_steel", 3350),
      Call("SetShaderMaterial", "darkMetallicDumbbell", 3351), Call("DrawMesh", "Box", 3354),
      Call("SetTransformations", 3371, 3371), Call("SetShaderColor", <<2, 2, 2, 10>>, 3378),
      Call("SetShaderTexture", "dumbell_steel", 3379),
      Call("SetShaderMaterial", "darkMetallicDumbbell", 3380),
      Call("DrawMesh", "Cylinder", 3383),
      Call("SetTransformations", 3398, 3398), Call("SetShaderColor", <<2, 2, 2, 10>>, 3405),
      Call("SetShaderTexture", "dumbell_steel", 3406),
      Call("SetShaderMaterial", "darkMetallicDumbbell", 3407), Call("DrawMesh", "Box", 3410),
      Call("SetTransformations", 3425, 3425), Call("SetShaderColor", <<2, 2, 2, 10>>, 3432),
      Call("SetShaderTexture", "dumbell_steel", 3433),
      Call("SetShaderMaterial", "darkMetallicDumbbell", 3434), Call("DrawMesh", "Box", 3437),
      Call("SetTransformations", 3454, 3454), Call("SetShaderColor", <<2, 2, 2, 10>>, 3461),
      Call("SetShaderTexture", "dumbell_steel", 3462),
      Call("SetShaderMaterial", "darkMetallicDumbbell", 3463),
      Call("DrawMesh", "Cylinder", 3466),
      Call("SetTransformations", 3481, 3481), Call("SetShaderColor", <<2, 2, 2, 10>>, 3488),
      Call("SetShaderTexture", "dumbell_steel", 3489),
      Call("SetShaderMaterial", "darkMetallicDumbbell", 3490), Call("DrawMesh", "Box", 3493),
      Call("SetTransformations", 3508, 3508), Call("SetShaderColor", <<2, 2, 2, 10>>, 3515),
      Call("SetShaderTexture", "dumbell_steel", 3516),
      Call("SetShaderMaterial", "darkMetallicDumbbell", 3517), Call("DrawMesh", "Box", 3520),
      Call("SetTransformations", 3538, 3538), Call("SetShaderColor", <<2, 2, 2, 10>>, 3545),
      Call("SetShaderTexture", "dumbell_steel", 3546),
      Call("SetShaderMaterial", "darkMetallicDumbbell", 3547),
      Call("DrawMesh", "Cylinder", 3550),
      Call("SetTransformations", 3565, 3565), Call("SetShaderColor", <<2, 2, 2, 10>>, 3572),
      Call("SetShaderTexture", "dumbell_steel", 3573),
      Call("SetShaderMaterial", "darkMetallicDumbbell", 3574), Call("DrawMesh", "Box", 3577),
      Call("SetTransformations", 3592, 3592), Call("SetShaderColor", <<2, 2, 2, 10>>, 3599),
      Call("SetShaderTexture", "dumbell_steel", 3600),
      Call("SetShaderMaterial", "darkMetallicDumbbell", 3601), Call("DrawMesh", "Box", 3604),
      Call("SetTransformations", 3621, 3621), Call("SetShaderColor", <<2, 2, 2, 10>>, 3628),
      Call("SetShaderTexture", "dumbell_orange", 3629),
      Call("SetShaderMaterial", "rubberDumbell", 3630), Call("DrawMesh", "Cylinder", 3633),
      Call("SetTransformations", 3648, 3648), Call("SetShaderColor", <<2, 2, 2, 10>>, 3655),
      Call("SetShaderTexture", "dumbell_orange", 3656),
      Call("SetShaderMaterial", "rubberDumbell", 3657), Call("DrawMesh", "Box", 3660),
      Call("SetTransformations", 3675, 3675), Call("SetShaderColor", <<2, 2, 2, 10>>, 3682),
      Call("SetShaderTexture", "dumbell_orange", 3683),
      Call("SetShaderMaterial", "rubberDumbell", 3684), Call("DrawMesh", "Box", 3687),
      Call("SetTransformations", 3704, 3704), Call("SetShaderColor", <<2, 2, 2, 10>>, 3711),
      Call("SetShaderTexture", "dumbell_orange", 3712),
      Call("SetShaderMaterial", "rubberDumbell", 3713), Call("DrawMesh", "Cylinder", 3716),
      Call("SetTransformations", 3731, 3731), Call("SetShaderColor", <<2, 2, 2, 10>>, 3738),
      Call("SetShaderTexture", "dumbell_orange", 3739),
      Call("SetShaderMaterial", "rubberDumbell", 3740), Call("DrawMesh", "Box", 3743),
      Call("SetTransformations", 3758, 3758), Call("SetShaderColor", <<2, 2, 2, 10>>, 3765),
      Call("SetShaderTexture", "dumbell_orange", 3766),
      Call("SetShaderMaterial", "rubberDumbell", 3767), Call("DrawMesh", "Box", 3770)
    >>

Program == PrepareSceneCalls \o RenderSceneCalls

\* the next call of the program is a call of `op`, and it is made now
AtCall(op) ==
    /\ ~undefined
    /\ pc < Len(Program)
    /\ Program[pc + 1].op = op
    /\ pc' = pc + 1

\* the argument of the next call
Arg == Program[pc + 1].arg

\* a call of PrepareScene: no part of a dispatch
Prepared == UNCHANGED <<sinceDraw, written, drawn>>

StepCreateGLTexture ==
    /\ AtCall("CreateGLTexture")
    /\ \E filename \in SceneFiles :
         /\ ~ChannelsSupported(stbi_load(filename).colorChannels) =>
              pc - m_loadedTextures < MaxFailedLoads
         /\ CreateGLTexture(filename, Arg)
    /\ Prepared
    /\ UNCHANGED meshLoads

StepBindGLTextures ==
    /\ AtCall("BindGLTextures")
    /\ BindGLTextures
    /\ Prepared
    /\ UNCHANGED meshLoads

StepDefineObjectMaterials ==
    /\ AtCall("DefineObjectMaterials")
    /\ DefineObjectMaterials
    /\ Prepared
    /\ UNCHANGED meshLoads

StepSetupSceneLights ==
    /\ AtCall("SetupSceneLights")
    /\ SetupSceneLights
    /\ Prepared
    /\ UNCHANGED meshLoads

StepLoadMesh ==
    /\ AtCall("LoadMesh")
    /\ LoadMesh(Arg)
    /\ Prepared

StepSetTextureUVScale ==
    /\ AtCall("SetTextureUVScale")
    /\ SetTextureUVScale(Arg[1], Arg[2])
    /\ Dispatched

StepSetTransformations ==
    /\ AtCall("SetTransformations")
    /\ SetTransformationsAt(Arg)
    /\ Dispatched

StepSetShaderColor ==
    /\ AtCall("SetShaderColor")
    /\ SetShaderColor(Arg[1], Arg[2], Arg[3], Arg[4])
    /\ Dispatched

StepSetShaderTexture ==
    /\ AtCall("SetShaderTexture")
    /\ SetShaderTexture(Arg)
    /\ Dispatched

StepSetShaderMaterial ==
    /\ AtCall("SetShaderMaterial")
    /\ SetShaderMaterial(Arg)
    /\ Dispatched

StepDrawMesh ==
    /\ AtCall("DrawMesh")
    /\ DrawMesh(Arg)
    /\ Drawn(Arg)

InitRender == \E pShaderManager \in { NULL, "shader" } : Constructed(pShaderManager)

NextRender ==
    \/ StepCreateGLTexture
    \/ StepBindGLTextures
    \/ StepDefineObjectMaterials
    \/ StepSetupSceneLights
    \/ StepLoadMesh
    \/ StepSetTextureUVScale
    \/ StepSetTransformations
    \/ StepSetShaderColor
    \/ StepSetShaderTexture
    \/ StepSetShaderMaterial
    \/ StepDrawMesh

SpecRender == InitRender /\ [][NextRender]_vars

\* the calls of one thread run one after the other: a call that can be made
\* is made
SpecRenderFair == SpecRender /\ WF_vars(NextRender)

(***************************************************************************)
(* The frame with tag lookups by other callers: between PrepareScene and   *)
(* RenderScene, and after RenderScene.                                     *)
(***************************************************************************)
\* RenderScene is not running: it has not started, or it has returned
BetweenFrames == pc \in { Len(PrepareSceneCalls), Len(Program) }

FrameLookupTextureID == BetweenFrames /\ LookupTextureID

FrameLookupTextureSlot == BetweenFrames /\ LookupTextureSlot

FrameLookupMaterial == BetweenFrames /\ LookupMaterial

NextFrame ==
    \/ NextRender
    \/ FrameLookupTextureID
    \/ FrameLookupTextureSlot
    \/ FrameLookupMaterial

SpecFrame == InitRender /\ [][NextFrame]_vars

(***************************************************************************)
(* Properties.                                                             *)
(***************************************************************************)
\* some registered texture entry carries the tag
TextureRegistered(tag) ==
    \E i \in 0..(m_loadedTextures - 1) : TextureEntry(i).tag = tag

\* some defined material entry carries the tag
MaterialDefined(tag) ==
    \E i \in 1..Len(m_objectMaterials) : m_objectMaterials[i].tag = tag

\* C1: a CreateGLTexture call made while the registry holds MaxTextures entries
\* returns false and leaves the count at MaxTextures and every entry, and the
\* memory behind the array, as it was.
C1_LoadAtCapacityFails ==
    [][ (m_loadedTextures = MaxTextures /\ call'.op = "CreateGLTexture")
          => /\ returned'
             /\ retBool' = FALSE
             /\ m_loadedTextures' = MaxTextures
             /\ m_textureIDs' = m_textureIDs
             /\ pastTheEnd' = pastTheEnd ]_vars

\* C2: SetShaderMaterial with a tag that no defined material carries writes
\* none of the five material uniforms.
C2_MissingMaterialWritesNothing ==
    [][ (call'.op = "SetShaderMaterial" /\ ~MaterialDefined(call'.tag))
          => (returned' /\ uniforms' = uniforms) ]_vars

\* C3: FindMaterial returns true exactly when some defined entry carries the
\* requested tag.
C3_FoundIffTagDefined ==
    (call.op = "FindMaterial" /\ returned) => (retBool <=> MaterialDefined(call.tag))

\* C4: after CreateGLTexture of an image with 3 or 4 channels the call has
\* returned true, FindTextureSlot of its tag is a slot below the count and
\* FindTextureID of its tag is the non-zero handle stored in that slot.
C4_LoadThenResolve ==
    (call.op = "CreateGLTexture" /\ stbi_load(call.filename).colorChannels \in {3, 4})
      => /\ returned
         /\ retBool = TRUE
         /\ FindTextureSlot(call.tag) \in 0..(m_loadedTextures - 1)
         /\ FindTextureID(call.tag) > 0
         /\ FindTextureID(call.tag) = TextureEntry(FindTextureSlot(call.tag)).ID

\* C5: CreateGLTexture of an image with 1 or 2 channels returns false and
\* leaves the count and every entry of the registry as they were.
C5_UnsupportedChannelsLeaveRegistry ==
    [][ (call'.op = "CreateGLTexture" /\ stbi_load(call'.filename).colorChannels \in {1, 2})
          => /\ returned'
             /\ retBool' = FALSE
             /\ m_loadedTextures' = m_loadedTextures
             /\ m_textureIDs' = m_textureIDs
             /\ pastTheEnd' = pastTheEnd ]_vars

\* C5 happens: a 1- or 2-channel load has failed on a registry with entries
C5_Witness ==
    /\ call.op = "CreateGLTexture"
    /\ stbi_load(call.filename).colorChannels \in {1, 2}
    /\ returned /\ retBool = FALSE
    /\ m_loadedTextures >= 2

\* C6: CreateGLTexture of a file that cannot be decoded returns false,
\* registers nothing and creates no GPU texture object.
C6_UndecodableCreatesNothing ==
    [][ (call'.op = "CreateGLTexture" /\ stbi_load(call'.filename).data = NULL)
          => /\ returned'
             /\ retBool' = FALSE
             /\ m_loadedTextures' = m_loadedTextures
             /\ m_textureIDs' = m_textureIDs
             /\ pastTheEnd' = pastTheEnd
             /\ glTextures' = glTextures ]_vars

\* C6 happens: an undecodable load has failed on a registry with entries
C6_Witness ==
    /\ call.op = "CreateGLTexture"
    /\ stbi_load(call.filename).data = NULL
    /\ returned /\ retBool = FALSE
    /\ m_loadedTextures >= 2
    /\ Cardinality(glTextures) >= 2

\* C7: no decoded image buffer is left allocated once CreateGLTexture has
\* returned, whatever the path it took.
C7_NoImageBufferLeft ==
    (call.op = "CreateGLTexture" /\ returned) => liveImages = 0

\* C8: DestroyGLTextures releases the texture object of every registered
\* entry and creates no texture object.
C8_TeardownReleasesTextures ==
    [][ call'.op = "DestroyGLTextures"
          => /\ \A i \in 0..(m_loadedTextures - 1) : m_textureIDs[i].ID \notin glTextures'
             /\ glTextures' \subseteq glTextures ]_vars

\* C9: a CreateGLTexture call that returns true stores (tag, new handle) in slot
\* m_loadedTextures, a slot of the registry, adds one to the count and changes
\* no other entry; a call that does not return true changes no entry and not
\* the count.
C9_AppendOnly ==
    [][ call'.op = "CreateGLTexture"
          => IF returned' /\ retBool'
             THEN /\ m_loadedTextures < MaxTextures
                  /\ m_loadedTextures' = m_loadedTextures + 1
                  /\ m_textureIDs'[m_loadedTextures].tag = call'.tag
                  /\ m_textureIDs'[m_loadedTextures].ID \in glTextures' \ glTextures
                  /\ \A i \in 0..(MaxTextures - 1) :
                        i # m_loadedTextures => m_textureIDs'[i] = m_textureIDs[i]
             ELSE /\ returned'
                  /\ m_loadedTextures' = m_loadedTextures
                  /\ m_textureIDs' = m_textureIDs ]_vars

\* C10: FindTextureSlot and FindTextureID of a tag that no registered entry
\* carries return -1.
C10_UnregisteredTagNotFound ==
    (call.op \in {"FindTextureSlot", "FindTextureID"} /\ ~TextureRegistered(call.tag))
      => (returned /\ retInt = -1)

\* C10 happens: a lookup on a full registry that lacks the tag has returned
C10_Witness ==
    /\ call.op = "FindTextureSlot"
    /\ m_loadedTextures = MaxTextures
    /\ ~TextureRegistered(call.tag)
    /\ returned


\* the smallest slot whose entry carries the tag
FirstSlotOf(tag) ==
    CHOOSE i \in 0..(m_loadedTextures - 1) :
        /\ TextureEntry(i).tag = tag
        /\ \A j \in 0..(i - 1) : TextureEntry(j).tag # tag

\* C11: for a tag that registered entries carry, FindTextureSlot returns the
\* smallest slot with that tag and FindTextureID the handle stored in that slot.
C11_FirstMatchWins ==
    (call.op \in {"FindTextureSlot", "FindTextureID"} /\ TextureRegistered(call.tag))
      => /\ returned
         /\ call.op = "FindTextureSlot" => retInt = FirstSlotOf(call.tag)
         /\ call.op = "FindTextureID" => retInt = TextureEntry(FirstSlotOf(call.tag)).ID

\* C11 happens: FindTextureID has resolved a tag that two entries with
\* different handles carry
C11_Witness ==
    /\ call.op = "FindTextureID"
    /\ returned
    /\ \E i, j \in 0..(m_loadedTextures - 1) :
         /\ i < j
         /\ TextureEntry(i).tag = call.tag
         /\ TextureEntry(j).tag = call.tag
         /\ TextureEntry(i).ID # TextureEntry(j).ID

\* C12: no two registered texture entries carry the same tag.
C12_TagsUnique ==
    \A i, j \in 0..(m_loadedTextures - 1) :
        i # j => TextureEntry(i).tag # TextureEntry(j).tag


\* C13: FindMaterial on an empty material registry returns false and leaves
\* the object the caller passed as it was.
C13_EmptyRegistryNotFound ==
    (call.op = "FindMaterial" /\ Len(m_objectMaterials) = 0)
      => (returned /\ retBool = FALSE /\ material = materialBefore)

\* C13 happens: FindMaterial has run on the empty registry with an output
\* object that held values
C13_Witness ==
    /\ call.op = "FindMaterial"
    /\ Len(m_objectMaterials) = 0
    /\ returned
    /\ materialBefore # ZeroMaterial


\* the first index of m_objectMaterials whose entry carries the tag
FirstMaterialOf(tag) ==
    CHOOSE i \in 1..Len(m_objectMaterials) :
        /\ m_objectMaterials[i].tag = tag
        /\ \A j \in 1..(i - 1) : m_objectMaterials[j].tag # tag

\* some later entry carries the tag of the first match with other values
HasDifferingDuplicate(tag) ==
    \E j \in (FirstMaterialOf(tag) + 1)..Len(m_objectMaterials) :
        /\ m_objectMaterials[j].tag = tag
        /\ m_objectMaterials[j] # m_objectMaterials[FirstMaterialOf(tag)]

\* C14: FindMaterial of a tag that defined entries carry returns true and sets
\* the five fields of the output to the values of the first such entry.
C14_ResolveFirstDefined ==
    (call.op = "FindMaterial" /\ MaterialDefined(call.tag))
      => /\ returned
         /\ retBool = TRUE
         /\ LET first == m_objectMaterials[FirstMaterialOf(call.tag)]
            IN  /\ material.ambientColor = first.ambientColor
                /\ material.ambientStrength = first.ambientStrength
                /\ material.diffuseColor = first.diffuseColor
                /\ material.specularColor = first.specularColor
                /\ material.shininess = first.shininess

\* C14 happens: FindMaterial has resolved a tag that a later entry repeats
\* with other values, into an output that held other values
C14_Witness ==
    /\ call.op = "FindMaterial"
    /\ returned
    /\ MaterialDefined(call.tag)
    /\ HasDifferingDuplicate(call.tag)
    /\ material # materialBefore

\* C20: with a shader manager, SetShaderMaterial of a tag that defined entries
\* carry leaves each of the five material uniforms equal to the field of the
\* first such entry.
C20_MaterialUniformsWritten ==
    (call.op = "SetShaderMaterial" /\ MaterialDefined(call.tag) /\ m_pShaderManager # NULL)
      => /\ returned
         /\ LET first == m_objectMaterials[FirstMaterialOf(call.tag)]
            IN  /\ uniforms["material.ambientColor"] = first.ambientColor
                /\ uniforms["material.ambientStrength"] = first.ambientStrength
                /\ uniforms["material.diffuseColor"] = first.diffuseColor
                /\ uniforms["material.specularColor"] = first.specularColor
                /\ uniforms["material.shininess"] = first.shininess

\* C20 happens: SetShaderMaterial has written the material of a tag that a
\* later entry repeats with other values
C20_Witness ==
    /\ call.op = "SetShaderMaterial"
    /\ returned
    /\ m_pShaderManager # NULL
    /\ MaterialDefined(call.tag)
    /\ HasDifferingDuplicate(call.tag)
    /\ uniforms["material.shininess"] # 0


\* a point scaled, then turned about Z, about Y, about X, then moved: the
\* five transformations applied to the point one after the other
ScalePoint(v, p) == << v[1] * p[1], v[2] * p[2], v[3] * p[3] >>
TurnZ(degrees, p) ==
    LET q == degrees \div 90
    IN  << Cos(q) * p[1] - Sin(q) * p[2], Sin(q) * p[1] + Cos(q) * p[2], p[3] >>
TurnY(degrees, p) ==
    LET q == degrees \div 90
    IN  << Cos(q) * p[1] + Sin(q) * p[3], p[2], Cos(q) * p[3] - Sin(q) * p[1] >>
TurnX(degrees, p) ==
    LET q == degrees \div 90
    IN  << p[1], Cos(q) * p[2] - Sin(q) * p[3], Sin(q) * p[2] + Cos(q) * p[3] >>
MovePoint(v, p) == << p[1] + v[1], p[2] + v[2], p[3] + v[3] >>

\* the image of the point p (w = 1) under the matrix m
PointImage(m, p, i) == m[i][1] * p[1] + m[i][2] * p[2] + m[i][3] * p[3] + m[i][4]
TransformPoint(m, p) == << PointImage(m, p, 1), PointImage(m, p, 2), PointImage(m, p, 3) >>

\* the origin and the three unit points: they determine an affine matrix
ProbePoints == { <<0, 0, 0>>, <<1, 0, 0>>, <<0, 1, 0>>, <<0, 0, 1>> }

\* C15: the model uniform SetTransformations writes maps every point as
\* scaling it first, then turning it about Z, Y and X, then translating it
\* does (Translation x RotationX x RotationY x RotationZ x Scale), and the
\* spec's two examples come out as (2,0,0) and (6,0,0).
C15_ComposeOrder ==
    (call.op = "SetTransformations" /\ m_pShaderManager # NULL)
      => /\ returned
         /\ uniforms["model"][4] = <<0, 0, 0, 1>>
         /\ \A p \in ProbePoints :
              TransformPoint(uniforms["model"], p) =
                MovePoint(call.positionXYZ,
                  TurnX(call.XrotationDegrees,
                    TurnY(call.YrotationDegrees,
                      TurnZ(call.ZrotationDegrees,
                        ScalePoint(call.scaleXYZ, p)))))
         /\ ( /\ call.scaleXYZ = <<2, 1, 1>>
              /\ call.XrotationDegrees = 0 /\ call.YrotationDegrees = 0
              /\ call.ZrotationDegrees = 0 /\ call.positionXYZ = <<0, 0, 0>> )
            => TransformPoint(uniforms["model"], <<1, 0, 0>>) = <<2, 0, 0>>
         /\ ( /\ call.scaleXYZ = <<1, 1, 1>>
              /\ call.XrotationDegrees = 0 /\ call.YrotationDegrees = 90
              /\ call.ZrotationDegrees = 0 /\ call.positionXYZ = <<5, 0, 0>> )
            => TransformPoint(uniforms["model"], <<0, 0, 1>>) = <<6, 0, 0>>

\* C15 happens: a transformation with an uneven scale, turns about two axes
\* and a translation has been written
C15_Witness ==
    /\ call.op = "SetTransformations"
    /\ m_pShaderManager # NULL
    /\ returned
    /\ call.scaleXYZ = <<2, 3, 4>>
    /\ call.XrotationDegrees = 90
    /\ call.ZrotationDegrees = -90
    /\ call.positionXYZ = <<1, -2, 3>>
    /\ uniforms["model"] # ZeroMatrix


\* the calls of a dispatch that decide the use-texture flag
FlagCalls(calls) == SelectSeq(calls, LAMBDA op : op \in { "SetShaderColor", "SetShaderTexture" })

\* C18: with a shader manager, SetShaderColor(r,g,b,a) leaves the color
\* uniform at (r,g,b,a) and the use-texture flag false, and a mesh draw whose
\* last color-or-texture call before it was SetShaderColor reads the flag false.
C18_ColorDisablesTexture ==
    m_pShaderManager # NULL
      => /\ call.op = "SetShaderColor"
            => /\ returned
               /\ uniforms["objectColor"] = call.color
               /\ uniforms["bUseTexture"] = 0
         /\ ( /\ drawn.shape # ""
              /\ FlagCalls(drawn.calls) # << >>
              /\ FlagCalls(drawn.calls)[Len(FlagCalls(drawn.calls))] = "SetShaderColor" )
            => drawn.uniforms["bUseTexture"] = 0

\* C18 happens: a texture had switched the flag on, a color was set after it,
\* and the mesh was drawn
C18_Witness ==
    /\ m_pShaderManager # NULL
    /\ call.op = "DrawMesh"
    /\ drawn.calls = << "SetShaderTexture", "SetShaderColor" >>
    /\ drawn.uniforms["objectColor"] = <<10, 0, 10, 10>>
    /\ drawn.uniforms["bUseTexture"] = 0

\* C19: with a shader manager, SetShaderTexture(tag) leaves the use-texture
\* flag true and the sampler uniform at the slot of the first entry carrying
\* the tag, and at -1 when no entry carries it.
C19_TextureWritesSlot ==
    (call.op = "SetShaderTexture" /\ m_pShaderManager # NULL)
      => /\ returned
         /\ uniforms["bUseTexture"] = 1
         /\ uniforms["objectTexture"] = FindTextureSlot(call.tag)
         /\ TextureRegistered(call.tag) => uniforms["objectTexture"] = FirstSlotOf(call.tag)
         /\ ~TextureRegistered(call.tag) => uniforms["objectTexture"] = -1

\* C19 happens: a tag no entry carries was set after a registered one, in a
\* registry that is not empty
C19_Witness ==
    /\ call.op = "SetShaderTexture"
    /\ m_pShaderManager # NULL
    /\ m_loadedTextures > 0
    /\ ~TextureRegistered(call.tag)
    /\ sinceDraw = << "SetShaderTexture", "SetShaderTexture" >>
    /\ uniforms["objectTexture"] = -1


\* the calls of a dispatch, the frame's one SetTextureUVScale set aside
DispatchCalls(calls) == SelectSeq(calls, LAMBDA op : op # "SetTextureUVScale")

\* the call sequences a dispatch may consist of before its draw
DispatchOrders ==
    { << "SetTransformations", "SetShaderColor" >>,
      << "SetTransformations", "SetShaderColor", "SetShaderTexture" >>,
      << "SetTransformations", "SetShaderColor", "SetShaderMaterial" >>,
      << "SetTransformations", "SetShaderColor", "SetShaderTexture", "SetShaderMaterial" >> }

\* C16: every mesh draw of RenderScene is preceded, since the draw before it,
\* by exactly one SetTransformations, and the calls since the draw before it
\* are SetTransformations, SetShaderColor, then SetShaderTexture if any, then
\* SetShaderMaterial if any.
C16_OneDispatchPerDraw ==
    drawn.shape # ""
      => /\ Len(SelectSeq(drawn.calls, LAMBDA op : op = "SetTransformations")) = 1
         /\ DispatchCalls(drawn.calls) \in DispatchOrders

\* C17: at every mesh draw of RenderScene the model matrix, the base color
\* and the five material uniforms have been written since the draw before it.
C17_DrawStateRewritten ==
    drawn.shape # ""
      => ({ "model", "objectColor" } \cup MaterialUniforms) \subseteq drawn.written


\* C21: once PrepareScene is done, every step of RenderScene makes the next
\* call of its list and returns, every mesh draw of the list is issued with
\* its shape, in list order, and the last call of the list is reached, also
\* when texture loads failed and tags are not found.
C21_RenderRunsToCompletion ==
    /\ [][ (m_pShaderManager # NULL /\ pc >= Len(PrepareSceneCalls))
             => /\ pc' = pc + 1
                /\ call'.op = Program[pc'].op
                /\ returned'
                /\ ~undefined'
                /\ Program[pc'].op = "DrawMesh"
                     => /\ call'.tag = Program[pc'].arg
                        /\ drawn'.shape = Program[pc'].arg ]_vars
    /\ (m_pShaderManager # NULL /\ pc = Len(PrepareSceneCalls))
          ~> (pc = Len(Program) /\ call.op = "DrawMesh" /\ ~undefined)

\* C21 happens: the last draw of the list has been issued in a frame in which
\* a texture was missing and a texture tag was not found
C21_Witness ==
    /\ pc = Len(Program)
    /\ m_pShaderManager # NULL
    /\ m_loadedTextures < MaxTextures
    /\ call.op = "DrawMesh"
    /\ drawn.shape = Program[Len(Program)].arg
    /\ ~undefined


\* the positions of the calls of `op` among the first n calls of the program
CallsOf(op, n) == { k \in 1..n : Program[k].op = op }

\* every texture unit below the loaded count holds the handle of its slot,
\* every other unit holds nothing
UnitsHoldRegistry ==
    \A i \in 0..(MaxTextures - 1) :
        glTextureUnits[i] = IF i < m_loadedTextures THEN m_textureIDs[i].ID ELSE 0

\* C22: BindGLTextures leaves the handle of slot i on texture unit i for every
\* i below the loaded count and no texture on any other unit; the scene calls
\* it once, after the last CreateGLTexture and before the first mesh draw, so
\* every mesh draw finds the units holding the registry.
C22_BindOnceAfterLoads ==
    /\ call.op = "BindGLTextures" => (returned /\ UnitsHoldRegistry)
    /\ Cardinality(CallsOf("BindGLTextures", pc)) <= 1
    /\ CallsOf("BindGLTextures", pc) # {} => CallsOf("CreateGLTexture", pc) = CallsOf("CreateGLTexture", Len(Program))
    /\ CallsOf("BindGLTextures", pc) = {} => CallsOf("DrawMesh", pc) = {} /\ drawn.shape = ""
    /\ drawn.shape # "" => UnitsHoldRegistry
    /\ pc = Len(Program) => Cardinality(CallsOf("BindGLTextures", pc)) = 1

\* C22 happens: BindGLTextures has just bound a registry in which one load
\* had failed
C22_Witness ==
    /\ call.op = "BindGLTextures"
    /\ returned
    /\ m_loadedTextures = MaxTextures - 1
    /\ glTextureUnits[m_loadedTextures - 1] = m_textureIDs[m_loadedTextures - 1].ID
    /\ glTextureUnits[m_loadedTextures] = 0


\* the shapes RenderScene draws
ShapesDrawn ==
    { RenderSceneCalls[k].arg :
        k \in { j \in 1..Len(RenderSceneCalls) : RenderSceneCalls[j].op = "DrawMesh" } }

\* C23: no mesh is loaded more than once, once PrepareScene is done every
\* shape RenderScene draws (all seven) has been loaded exactly once, and
\* every mesh draw finds the mesh of its shape loaded.
C23_MeshLoadedOnceBeforeDraw ==
    /\ \A shape \in Shapes : meshLoads[shape] <= 1
    /\ ShapesDrawn = Shapes
    /\ (pc >= Len(PrepareSceneCalls) /\ ~undefined)
         => \A shape \in ShapesDrawn : meshLoads[shape] = 1
    /\ drawn.shape # "" => meshLoads[drawn.shape] = 1

\* C23 happens: a sphere, the shape PrepareScene loads last, has been drawn
C23_Witness ==
    /\ call.op = "DrawMesh"
    /\ drawn.shape = "Sphere"
    /\ meshLoads["Sphere"] = 1
    /\ pc > Len(PrepareSceneCalls)


\* the UV scale RenderScene sets for the frame, in tenths
FrameUVScale == RenderSceneCalls[1].arg

\* C24: in the frame the UVscale uniform is written by one call only, the
\* SetTextureUVScale made before any SetTransformations and any mesh draw,
\* and from the first SetTransformations on, at every mesh draw included, it
\* holds the value that call wrote.
C24_UVScaleOncePerFrame ==
    /\ "UVscale" \in writes
         => /\ call.op = "SetTextureUVScale"
            /\ CallsOf("SetTransformations", pc) = {}
            /\ CallsOf("DrawMesh", pc) = {}
    /\ Cardinality(CallsOf("SetTextureUVScale", pc)) <= 1
    /\ (m_pShaderManager # NULL /\ CallsOf("SetTransformations", pc) # {})
         => /\ Cardinality(CallsOf("SetTextureUVScale", pc)) = 1
            /\ uniforms["UVscale"] = FrameUVScale
    /\ (m_pShaderManager # NULL /\ drawn.shape # "")
         => drawn.uniforms["UVscale"] = FrameUVScale

\* C24 happens: the last mesh of the frame has been drawn with the UV scale
\* set at the start of the frame
C24_Witness ==
    /\ pc = Len(Program)
    /\ call.op = "DrawMesh"
    /\ FrameUVScale = <<20, 20>>
    /\ drawn.uniforms["UVscale"] = <<20, 20>>


\* C25: once PrepareScene is done, no call (the lookups FindTextureID,
\* FindTextureSlot and FindMaterial, the setters, the mesh draws: the whole of
\* RenderScene) changes a texture entry, the loaded count or the list of
\* material entries.
C25_RegistriesImmutableAfterSetup ==
    [][ pc >= Len(PrepareSceneCalls)
          => /\ m_textureIDs' = m_textureIDs
             /\ pastTheEnd' = pastTheEnd
             /\ m_loadedTextures' = m_loadedTextures
             /\ m_objectMaterials' = m_objectMaterials ]_vars

\* C25 happens: after the whole frame, with textures and materials
\* registered, a handle has been looked up
C25_Witness ==
    /\ pc = Len(Program)
    /\ call.op = "FindTextureID"
    /\ retInt > 0
    /\ m_loadedTextures > 0
    /\ m_objectMaterials = SceneMaterials
    /\ drawn.shape # ""


\* C26: when all sixteen loads of LoadSceneTextures have succeeded, every
\* mesh draw of RenderScene issued with the use-texture flag true reads a
\* sampler value that is a slot of the registry, never the sentinel -1.
C26_SamplerIsSlotAtDraw ==
    ( /\ m_pShaderManager # NULL
      /\ m_loadedTextures = MaxTextures
      /\ drawn.shape # ""
      /\ drawn.uniforms["bUseTexture"] = 1 )
      => drawn.uniforms["objectTexture"] \in 0..(m_loadedTextures - 1)

\* the material uniforms hold the five fields of the entry mat
UniformsHold(mat) ==
    /\ uniforms["material.ambientColor"] = mat.ambientColor
    /\ uniforms["material.ambientStrength"] = mat.ambientStrength
    /\ uniforms["material.diffuseColor"] = mat.diffuseColor
    /\ uniforms["material.specularColor"] = mat.specularColor
    /\ uniforms["material.shininess"] = mat.shininess

\* C27: every material tag RenderScene passes to SetShaderMaterial is the tag
\* of a defined entry, and whenever SetShaderMaterial has written the material
\* uniforms they hold the fields of one defined entry.
C27_MaterialWritesAreDefined ==
    (call.op = "SetShaderMaterial" /\ pc > Len(PrepareSceneCalls))
      => /\ MaterialDefined(call.tag)
         /\ writes # {} =>
              \E i \in 1..Len(m_objectMaterials) : UniformsHold(m_objectMaterials[i])


\* the handles the registry owns
RegisteredHandles == { TextureEntry(i).ID : i \in 0..(m_loadedTextures - 1) }

\* C28: when CreateGLTexture has returned (and nothing has been torn down),
\* every GPU texture object is the handle of a registry entry, and after a
\* call that returned false no texture is bound to the 2D texture target.
C28_NoOrphanTexture ==
    (call.op = "CreateGLTexture" /\ returned /\ destroyCalls = 0)
      => /\ glTextures \subseteq RegisteredHandles
         /\ ~retBool => glBoundTexture2D = 0


\* the tags a lookup may be asked for: every tag of the scene, the two that
\* no load registers, and the empty tag of an unused slot
AllTextureTags ==
    { SceneTextureTags[k] : k \in 1..Len(SceneTextureTags) } \cup
    { UnloadedTextureTags[k] : k \in 1..Len(UnloadedTextureTags) } \cup { "" }

\* C29: in every registry state and for every tag, FindTextureSlot returns -1
\* exactly when FindTextureID returns -1, and when FindTextureSlot returns a
\* slot i, FindTextureID returns the handle stored in entry i.
C29_SlotAndIDAgree ==
    \A tag \in AllTextureTags :
        /\ (FindTextureSlot(tag) = -1) <=> (FindTextureID(tag) = -1)
        /\ FindTextureSlot(tag) >= 0
             => FindTextureID(tag) = TextureEntry(FindTextureSlot(tag)).ID

\* C29 happens: a tag that two entries with different handles carry has been
\* resolved to its slot
C29_Witness ==
    /\ call.op = "FindTextureSlot"
    /\ retInt >= 0
    /\ \E j \in 0..(m_loadedTextures - 1) :
         /\ j # retInt
         /\ TextureEntry(j).tag = call.tag
         /\ TextureEntry(j).ID # TextureEntry(retInt).ID
    /\ FindTextureID(call.tag) = TextureEntry(retInt).ID

\* the five methods that set draw state
DrawStateSetters ==
    { "SetTransformations", "SetShaderColor", "SetShaderTexture", "SetTextureUVScale",
      "SetShaderMaterial" }

\* C30: with a NULL shader manager a call of SetTransformations,
\* SetShaderColor, SetShaderTexture, SetTextureUVScale or SetShaderMaterial
\* returns without having dereferenced the shader manager and without having
\* written a uniform, whatever the registries hold.
C30_NullShaderManagerNoOp ==
    (m_pShaderManager = NULL /\ call.op \in DrawStateSetters)
      => /\ ~undefined
         /\ returned
         /\ writes = {}
         /\ uniforms = InitialUniforms

====
